---- MODULE Spec2Model ----
(***************************************************************************)
(* BRL Counties Leaderboard: the scrape / aggregate / merge / rank          *)
(* pipeline of CountiesLeaderboard.py (current rating) and                  *)
(* CountiesLeaderboardPeak.py (peak rating).                                *)
(*                                                                          *)
(* Python values are represented as follows: a list or tuple is a TLA+      *)
(* sequence (Python index i is TLA+ index i+1), None is the empty tuple,    *)
(* a dict is a function from its keys, a string that the code inspects      *)
(* character by character is a sequence of one-character strings.           *)
(***************************************************************************)
EXTENDS Integers, Sequences, FiniteSets, TLC

None == << >>

(***************************************************************************)
(* Generic sequence helpers.                                                *)
(***************************************************************************)
RECURSIVE Flatten(_)
Flatten(ss) == IF ss = << >> THEN << >> ELSE Head(ss) \o Flatten(Tail(ss))

RECURSIVE SeqsUpTo(_, _)
SeqsUpTo(S, n) ==
    IF n = 0 THEN { << >> }
    ELSE LET shorter == SeqsUpTo(S, n - 1)
         IN  shorter \cup { Append(s, x) : s \in shorter, x \in S }

(***************************************************************************)
(* Program constants.                                                       *)
(***************************************************************************)
COMBINE_COUNTIES ==
    << <<"Tyne and Wear", "Northumberland">>,
       <<"Clwyd", "North Wales">>,
       <<"Gwynedd", "North Wales">>,
       <<"Dyfed", "Central Wales">>,
       <<"Powys", "Central Wales">>,
       <<"Ayrshire", "South-West Scotland">>,
       <<"Dumfries & Galloway", "South-West Scotland">>,
       <<"Herefordshire", "Herefordshire & Shropshire">>,
       <<"Shropshire", "Herefordshire & Shropshire">>,
       <<"Armagh", "Rest of Ulster">>,
       <<"Down", "Rest of Ulster">>,
       <<"Tyrone & Fermanagh", "Rest of Ulster">>,
       <<"Hampshire - *Including the Isle of Wight*", "Hampshire">>,
       <<"Northamptonshire - *Including Rutland*", "Northamptonshire">>,
       <<"Central Scotland - *Clackmannanshire, Falkirk and Stirling*", "Central Scotland">>,
       <<"Grampian - *Aberdeenshire and Moray*", "Grampian">>,
       <<"Highlands - *Highlands, Western Isles, Orkney & Shetland*", "Highlands">>,
       <<"Dunbartonshire, Argyll & Bute", "Highlands">>,
       <<"Renfrewshire - *Renfrewshire and Inverclyde*", "Renfrewshire">>,
       <<"Tayside - *Angus, Perth, Dundee and Kinross*", "Tayside">> >>

max_workers == 10

TRY_COUNT == 3

SKIPPED_ROWS == 2

ORIGIN == "https://rocketleague.tracker.network"

(***************************************************************************)
(* Text conversions of the town page parser.                                *)
(***************************************************************************)
Digits == <<"0", "1", "2", "3", "4", "5", "6", "7", "8", "9">>

IsDigit(ch) == \E d \in 1..10 : Digits[d] = ch

DigitVal(ch) == (CHOOSE d \in 1..10 : Digits[d] = ch) - 1

\* str.replace(old, new) for a one-character old.
Replace(chars, old, new) ==
    LET Sub(ch) == IF ch = old THEN new ELSE << ch >>
    IN  Flatten([ i \in 1..Len(chars) |-> Sub(chars[i]) ])

Whitespace == {" ", "\t", "\n", "\r"}

\* str.strip()
RECURSIVE LStrip(_)
LStrip(chars) ==
    IF chars # << >> /\ Head(chars) \in Whitespace THEN LStrip(Tail(chars)) ELSE chars

RECURSIVE RStrip(_)
RStrip(chars) ==
    IF chars # << >> /\ chars[Len(chars)] \in Whitespace
    THEN RStrip(SubSeq(chars, 1, Len(chars) - 1))
    ELSE chars

Strip(chars) == RStrip(LStrip(chars))

\* str.split(sep) for a one-character sep: always at least one piece.
RECURSIVE SplitOn(_, _)
SplitOn(chars, sep) ==
    IF \A i \in 1..Len(chars) : chars[i] # sep THEN << chars >>
    ELSE LET k == CHOOSE i \in 1..Len(chars) :
                      chars[i] = sep /\ \A j \in 1..(i - 1) : chars[j] # sep
         IN  << SubSeq(chars, 1, k - 1) >> \o SplitOn(SubSeq(chars, k + 1, Len(chars)), sep)

\* int(text) for an unsigned decimal text, surrounding whitespace ignored;
\* IntOk is FALSE where int raises ValueError.
IntOk(chars) ==
    LET t == Strip(chars)
    IN  Len(t) > 0 /\ \A i \in 1..Len(t) : IsDigit(t[i])

RECURSIVE DecimalOf(_)
DecimalOf(chars) ==
    IF chars = << >> THEN 0
    ELSE 10 * DecimalOf(SubSeq(chars, 1, Len(chars) - 1)) + DigitVal(chars[Len(chars)])

IntOf(chars) == DecimalOf(Strip(chars))

(***************************************************************************)
(* The remote site, current-rating flow.  A town page is the sequence of    *)
(* its <tr> rows.  A row records what the parser's structural offsets       *)
(* meet: the number of children of the row (cells), the number of children  *)
(* of the name cell (inner), the anchor's text (name) and href attribute    *)
(* (None when the attribute is missing) and the lines of the rating cell's  *)
(* text.                                                                    *)
(***************************************************************************)
Row(name, href, mmr) ==
    [cells |-> 7, inner |-> 5, name |-> name, href |-> href,
     lines |-> << << >>, << >>, mmr >>]

HeaderRow == [cells |-> 3, inner |-> 0, name |-> << >>, href |-> None, lines |-> << >>]

\* A second header row that happens to have the shape of a player row.
TitleRow == Row(<<"#">>, <<"/">>, <<"0">>)

\* A promotional row: too few cells for the offsets.
ShortRow == [cells |-> 2, inner |-> 0, name |-> << >>, href |-> None, lines |-> << >>]

\* A row whose rating cell has fewer than three lines.
FewLinesRow ==
    [cells |-> 7, inner |-> 5, name |-> <<"Z">>, href |-> <<"/z">>, lines |-> << <<"9">> >>]

\* A row whose rating is not a number.
BrokenRow == Row(<<"X">>, <<"/x">>, <<"-">>)

\* A row whose anchor has no href.
NoHrefRow == [cells |-> 7, inner |-> 5, name |-> <<"Y">>, href |-> None,
              lines |-> << << >>, << >>, <<"7">> >>]

Page(id) ==
    CASE id = "pA" -> << HeaderRow, TitleRow,
                         Row(<<"A">>, <<"/a">>, <<"1", ",", "8", "0", "0">>),
                         Row(<<"B", "\"">>, <<"/b">>, <<"1", "5", "0", "0">>) >>
      [] id = "pB" -> << HeaderRow, TitleRow, ShortRow,
                         Row(<<"C">>, <<"/c">>, <<"1", "8", "0", "0">>),
                         FewLinesRow >>
      [] id = "pBx" -> << HeaderRow, TitleRow, ShortRow,
                          Row(<<"C">>, <<"/c">>, <<"1", "8", "0", "0">>),
                          BrokenRow >>
      [] id = "pD" -> << HeaderRow, TitleRow,
                         Row(<<"D">>, <<"/d">>, <<"1", "2", "0", "0">>),
                         Row(<<"E">>, <<"/e">>, <<"1", "8", "0", "0">>) >>
      [] id = "pDa" -> << HeaderRow, TitleRow,
                          Row(<<"A">>, <<"/a">>, <<"1", ",", "8", "0", "0">>),
                          Row(<<"D">>, <<"/d">>, <<"1", "2", "0", "0">>) >>
      [] id = "pF" -> << HeaderRow, TitleRow,
                         Row(<<"F">>, <<"/f">>, <<"9", "0", "0">>) >>
      [] id = "pFx" -> << HeaderRow, TitleRow,
                          Row(<<"F">>, <<"/f">>, <<"9", "0", "0">>),
                          NoHrefRow >>
      [] id = "pG" -> << HeaderRow >>

\* What a GET of a town link may answer: "err" is a transport error raised by
\* requests.get, any other id is the page served.
TownResponses(town) ==
    CASE town = "t1" -> {"err", "pA"}
      [] town = "t2" -> {"pB", "pBx"}
      [] town = "t3" -> {"err", "pD", "pDa"}
      [] town = "t4" -> {"pF", "pFx"}
      [] town = "t5" -> {"err", "pG"}
      [] town = "t6" -> {"pF"}
      [] town = "t7" -> {"pD"}

(***************************************************************************)
(* get_town_players: one row of the page.                                   *)
(***************************************************************************)
mmrText(row) == Replace(row.lines[3], ",", << >>)

\* The exception the body of the inner try raises for this row, or "none".
RowException(row) ==
    IF row.cells < 4 \/ row.inner < 4 THEN "IndexError"
    ELSE IF row.href = None THEN "KeyError"
    ELSE IF row.cells < 6 \/ Len(row.lines) < 3 THEN "IndexError"
    ELSE IF ~IntOk(mmrText(row)) THEN "ValueError"
    ELSE "none"

\* Fault: the name is kept as the page has it.
RowPlayer_raw(row) == << row.name, <<ORIGIN, row.href>>, IntOf(mmrText(row)) >>

\* [name, link, mmr]
RowPlayer(row) ==
    << Replace(row.name, "\"", <<"'">>), <<ORIGIN, row.href>>, IntOf(mmrText(row)) >>

\* Fault: the inner try is missing, so an IndexError leaves the loop too.
RECURSIVE ParseRows_abort(_, _)
ParseRows_abort(players, town_players) ==
    IF players = << >> THEN [exc |-> "none", town_players |-> town_players]
    ELSE LET exc == RowException(Head(players))
         IN  IF exc = "none"
             THEN ParseRows_abort(Tail(players), Append(town_players, RowPlayer(Head(players))))
             ELSE [exc |-> exc, town_players |-> town_players]

\* The for loop over the rows: IndexError skips the row, any other exception
\* leaves the loop with what was appended so far.
RECURSIVE ParseRows(_, _)
ParseRows(players, town_players) ==
    IF players = << >> THEN [exc |-> "none", town_players |-> town_players]
    ELSE LET exc == RowException(Head(players))
         IN  IF exc = "none"
             THEN ParseRows(Tail(players), Append(town_players, RowPlayer(Head(players))))
             ELSE IF exc = "IndexError"
             THEN ParseRows(Tail(players), town_players)
             ELSE [exc |-> exc, town_players |-> town_players]

\* findAll("tr")[2::]
SkipRows(rows) == SubSeq(rows, SKIPPED_ROWS + 1, Len(rows))

\* The body of the outer try for one response.
TownTry(resp, town_players) ==
    IF resp = "err" THEN [exc |-> "ConnectionError", town_players |-> town_players]
    ELSE ParseRows(SkipRows(Page(resp)), town_players)

\* Fault: the handler names only the transport error.
Catches_transport(exc) == exc = "ConnectionError"

\* "except Exception" catches every exception the body can raise.
Catches(exc) ==
    exc \in {"ConnectionError", "IndexError", "KeyError", "ValueError", "TypeError"}

(***************************************************************************)
(* The remote site, peak-rating flow.  A profile page either lacks the      *)
(* selected script element or carries its text already cut at the word      *)
(* "data": a sequence of segments.  A segment records whether it contains   *)
(* the queue label and its pieces after split("rating:"), each piece given  *)
(* as its own pieces after split("tier: "); ratings and tiers are the       *)
(* series the site rendered into that text, which the program never sees.   *)
(***************************************************************************)
RECURSIVE DecimalText(_)
DecimalText(n) ==
    IF n < 10 THEN << Digits[n + 1] >>
    ELSE DecimalText(n \div 10) \o << Digits[(n % 10) + 1] >>

RECURSIVE Join(_)
Join(series) ==
    IF series = << >> THEN << >>
    ELSE IF Len(series) = 1 THEN DecimalText(series[1])
    ELSE DecimalText(series[1]) \o <<",">> \o Join(Tail(series))

\* The site's script text: "rating: [..],\r\n  tier: [..]\r\n".
RatingText(series) == <<" ", "[">> \o Join(series) \o <<"]", ",", "\r", "\n", " ">>

TierText(series) == <<"[">> \o Join(series) \o <<"]", "\r", "\n", " ", "}">>

Segment(ratings, tiers) ==
    [label |-> TRUE, ratings |-> ratings, tiers |-> tiers,
     pieces |-> << << <<"{">> >>, << RatingText(ratings), TierText(tiers) >> >>]

OtherSegment ==
    [label |-> FALSE, ratings |-> << >>, tiers |-> << >>, pieces |-> << << <<"{">> >> >>]

\* A labelled segment without a "rating:" key.
NoRatingSegment ==
    [label |-> TRUE, ratings |-> << >>, tiers |-> << >>, pieces |-> << << <<"{">> >> >>]

\* A labelled segment without a "tier: " key.
NoTierSegment ==
    [label |-> TRUE, ratings |-> <<1100>>, tiers |-> << >>,
     pieces |-> << << <<"{">> >>, << RatingText(<<1100>>) >> >>]

Profile(id) ==
    CASE id = "qA" -> [script |-> TRUE,
                       data |-> << OtherSegment,
                                   Segment(<<1000, 1000, 1400, 1600, 1700>>,
                                           <<0, 0, 1, 2, 0>>) >>]
      [] id = "qB" -> [script |-> TRUE,
                       data |-> << Segment(<<1300, 1250>>, <<3, 3>>),
                                   NoRatingSegment >>]
      [] id = "qC" -> [script |-> TRUE,
                       data |-> << OtherSegment,
                                   Segment(<<1250, 1200, 900>>, <<3, 2>>) >>]
      [] id = "qD" -> [script |-> TRUE, data |-> << OtherSegment >>]
      [] id = "qE" -> [script |-> TRUE,
                       data |-> << Segment(<<1500, 1500>>, <<0, 0>>) >>]
      [] id = "qF" -> [script |-> FALSE, data |-> << >>]
      [] id = "qG" -> [script |-> TRUE,
                       data |-> << Segment(<<1100>>, <<1>>),
                                   Segment(<<1250, 1300>>, <<4, 0>>),
                                   NoTierSegment >>]

\* What a GET of a profile link may answer ("err": requests.get raises).
ProfileResponses(link) ==
    CASE link = "t1" -> {"err", "qA"}
      [] link = "t2" -> {"qB", "qC", "qD"}
      [] link = "t3" -> {"err", "qD"}
      [] link = "t4" -> {"qE", "qG"}
      [] link = "t5" -> {"err", "qF"}
      [] link = "t6" -> {"qA"}
      [] link = "t7" -> {"qE"}

(***************************************************************************)
(* get_player_mmrs: one labelled segment.                                   *)
(***************************************************************************)
Unbracket(chars) == Strip(Replace(Replace(chars, "[", << >>), "]", << >>))

\* [int(x) for x in text.split(",")]
IntsOk(chars) ==
    LET items == SplitOn(chars, ",") IN \A i \in 1..Len(items) : IntOk(items[i])

Ints(chars) ==
    LET items == SplitOn(chars, ",") IN [ i \in 1..Len(items) |-> IntOf(items[i]) ]

\* standard_mmr_data_mmr[:-1:]
DropLast(chars) == SubSeq(chars, 1, Len(chars) - 1)

standard_mmr_data_mmr(standard_mmr_data) == DropLast(Unbracket(standard_mmr_data[1]))

standard_mmr_data_rank(standard_mmr_data) ==
    SplitOn(Unbracket(standard_mmr_data[2]), "\r")[1]

Min(a, b) == IF a < b THEN a ELSE b

\* list(zip(rank, mmr)): as long as the shorter of the two.
Zip(rank, mmr) == [ i \in 1..Min(Len(rank), Len(mmr)) |-> << rank[i], mmr[i] >> ]

\* Fault: the unranked days are not filtered out.
Ranked_any(x) == TRUE

Ranked(x) == x[1] > 0

\* list(filter(lambda x: x[0] > 0, join)), then max(join, key=lambda x: x[1])[1]
standard_mmr_rank_join(rank, mmr) == SelectSeq(Zip(rank, mmr), Ranked)

\* max(seq, key=...): the first element that no later one exceeds.
RECURSIVE MaxByRating(_)
MaxByRating(join) ==
    IF Len(join) = 1 THEN join[1]
    ELSE LET rest == MaxByRating(Tail(join))
         IN  IF rest[2] > join[1][2] THEN rest ELSE join[1]

\* Fault: max is given a default, so a segment without a ranked day yields 0.
SegmentTry_default(segment) ==
    IF Len(segment.pieces) < 2 THEN [exc |-> "IndexError", max_mmr |-> 0]
    ELSE LET standard_mmr_data == segment.pieces[2]
         IN  IF ~IntsOk(standard_mmr_data_mmr(standard_mmr_data))
             THEN [exc |-> "ValueError", max_mmr |-> 0]
             ELSE IF Len(standard_mmr_data) < 2
             THEN [exc |-> "IndexError", max_mmr |-> 0]
             ELSE IF ~IntsOk(standard_mmr_data_rank(standard_mmr_data))
             THEN [exc |-> "ValueError", max_mmr |-> 0]
             ELSE LET join == standard_mmr_rank_join(
                                  Ints(standard_mmr_data_rank(standard_mmr_data)),
                                  Ints(standard_mmr_data_mmr(standard_mmr_data)))
                  IN  IF join = << >>
                      THEN [exc |-> "none", max_mmr |-> 0]
                      ELSE [exc |-> "none", max_mmr |-> MaxByRating(join)[2]]

\* The body of "if label in data[i]": the exception it raises ("none" when it
\* completes) and max_mmr.
SegmentTry(segment) ==
    IF Len(segment.pieces) < 2 THEN [exc |-> "IndexError", max_mmr |-> 0]
    ELSE LET standard_mmr_data == segment.pieces[2]
         IN  IF ~IntsOk(standard_mmr_data_mmr(standard_mmr_data))
             THEN [exc |-> "ValueError", max_mmr |-> 0]
             ELSE IF Len(standard_mmr_data) < 2
             THEN [exc |-> "IndexError", max_mmr |-> 0]
             ELSE IF ~IntsOk(standard_mmr_data_rank(standard_mmr_data))
             THEN [exc |-> "ValueError", max_mmr |-> 0]
             ELSE LET join == standard_mmr_rank_join(
                                  Ints(standard_mmr_data_rank(standard_mmr_data)),
                                  Ints(standard_mmr_data_mmr(standard_mmr_data)))
                  IN  IF join = << >>
                      THEN [exc |-> "ValueError", max_mmr |-> 0]
                      ELSE [exc |-> "none", max_mmr |-> MaxByRating(join)[2]]

\* The for loop over the segments: player_details is assigned in place, so an
\* exception leaves it as the last completed segment set it.
RECURSIVE ProfileLoop(_, _, _)
ProfileLoop(data, player, player_details) ==
    IF data = << >> THEN [exc |-> "none", player_details |-> player_details]
    ELSE IF ~Head(data).label THEN ProfileLoop(Tail(data), player, player_details)
    ELSE LET r == SegmentTry(Head(data))
         IN  IF r.exc # "none"
             THEN [exc |-> r.exc, player_details |-> player_details]
             ELSE ProfileLoop(Tail(data), player,
                              << player[1], player[2], r.max_mmr >>)

\* The body of the try for one response; player[1] on None raises TypeError
\* before any request is made.
PlayerTry(resp, player, player_details) ==
    IF player = None THEN [exc |-> "TypeError", player_details |-> player_details]
    ELSE IF resp = "err"
    THEN [exc |-> "ConnectionError", player_details |-> player_details]
    ELSE IF ~Profile(resp).script
    THEN [exc |-> "IndexError", player_details |-> player_details]
    ELSE ProfileLoop(Profile(resp).data, player, player_details)

(***************************************************************************)
(* Ranking: the merge under COMBINE_COUNTIES and the sort.                  *)
(***************************************************************************)
\* dict(pairs): a later pair replaces an earlier one with the same key.
DictOf(pairs) ==
    [ k \in { pairs[i][1] : i \in 1..Len(pairs) } |->
        pairs[CHOOSE i \in 1..Len(pairs) :
                  pairs[i][1] = k /\ \A j \in (i + 1)..Len(pairs) : pairs[j][1] # k][2] ]

\* Fault: the target's list is appended to the source's.
MergeEntry_prepend(country_leaderboard, entry) ==
    LET source == entry[1]
        target == entry[2]
    IN  IF source \in DOMAIN country_leaderboard
        THEN LET merged == IF target \in DOMAIN country_leaderboard
                           THEN country_leaderboard[source] \o country_leaderboard[target]
                           ELSE country_leaderboard[source]
             IN  [ k \in ((DOMAIN country_leaderboard) \cup {target}) \ {source} |->
                     IF k = target THEN merged ELSE country_leaderboard[k] ]
        ELSE country_leaderboard

\* Fault: the del sits in the branch that appends, so a renamed source stays.
MergeEntry_keep(country_leaderboard, entry) ==
    LET source == entry[1]
        target == entry[2]
    IN  IF source \in DOMAIN country_leaderboard
        THEN IF target \in DOMAIN country_leaderboard
             THEN [ k \in (DOMAIN country_leaderboard) \ {source} |->
                      IF k = target
                      THEN country_leaderboard[target] \o country_leaderboard[source]
                      ELSE country_leaderboard[k] ]
             ELSE [ k \in (DOMAIN country_leaderboard) \cup {target} |->
                      IF k = target THEN country_leaderboard[source]
                      ELSE country_leaderboard[k] ]
        ELSE country_leaderboard

\* Fault: the target is bound to the source's list even when it has its own.
MergeEntry_overwrite(country_leaderboard, entry) ==
    LET source == entry[1]
        target == entry[2]
    IN  IF source \in DOMAIN country_leaderboard
        THEN [ k \in ((DOMAIN country_leaderboard) \cup {target}) \ {source} |->
                 IF k = target THEN country_leaderboard[source] ELSE country_leaderboard[k] ]
        ELSE country_leaderboard

\* Fault: the del sits in the branch that renames, so an appended source stays.
MergeEntry_stay(country_leaderboard, entry) ==
    LET source == entry[1]
        target == entry[2]
    IN  IF source \in DOMAIN country_leaderboard
        THEN IF target \in DOMAIN country_leaderboard
             THEN [ k \in DOMAIN country_leaderboard |->
                      IF k = target
                      THEN country_leaderboard[target] \o country_leaderboard[source]
                      ELSE country_leaderboard[k] ]
             ELSE [ k \in ((DOMAIN country_leaderboard) \cup {target}) \ {source} |->
                      IF k = target THEN country_leaderboard[source]
                      ELSE country_leaderboard[k] ]
        ELSE country_leaderboard

\* Fault: every county left is bound to the merged list.
MergeEntry_shared(country_leaderboard, entry) ==
    LET source == entry[1]
        target == entry[2]
    IN  IF source \in DOMAIN country_leaderboard
        THEN LET merged == IF target \in DOMAIN country_leaderboard
                           THEN country_leaderboard[target] \o country_leaderboard[source]
                           ELSE country_leaderboard[source]
             IN  [ k \in ((DOMAIN country_leaderboard) \cup {target}) \ {source} |-> merged ]
        ELSE country_leaderboard

\* One iteration of "for country in COMBINE_COUNTIES".
MergeEntry(country_leaderboard, entry) ==
    LET source == entry[1]
        target == entry[2]
    IN  IF source \in DOMAIN country_leaderboard
        THEN LET merged == IF target \in DOMAIN country_leaderboard
                           THEN country_leaderboard[target] \o country_leaderboard[source]
                           ELSE country_leaderboard[source]
             IN  [ k \in ((DOMAIN country_leaderboard) \cup {target}) \ {source} |->
                     IF k = target THEN merged ELSE country_leaderboard[k] ]
        ELSE country_leaderboard

\* Fault: x is put before the elements with an equal key.
RECURSIVE Insert_unstable(_, _)
Insert_unstable(x, sorted) ==
    IF sorted = << >> THEN << x >>
    ELSE IF Head(sorted)[3] > x[3]
    THEN << Head(sorted) >> \o Insert_unstable(x, Tail(sorted))
    ELSE << x >> \o sorted

\* list.sort(key=lambda x: x[2], reverse=True): stable, descending.  Insert
\* puts x after every element whose key is not smaller.
RECURSIVE Insert(_, _)
Insert(x, sorted) ==
    IF sorted = << >> THEN << x >>
    ELSE IF Head(sorted)[3] >= x[3] THEN << Head(sorted) >> \o Insert(x, Tail(sorted))
    ELSE << x >> \o sorted

RECURSIVE Sort(_)
Sort(players) ==
    IF players = << >> THEN << >>
    ELSE Insert(players[Len(players)], Sort(SubSeq(players, 1, Len(players) - 1)))

IsPlayer(p) == p # None

\* Fault: a county with a None entry loses its whole list.
DropNone_county(players) ==
    IF \E i \in 1..Len(players) : players[i] = None THEN << >> ELSE players

\* [player for player in country[county] if player is not None]
DropNone(players) == SelectSeq(players, IsPlayer)

\* The next iteration of "for country in COMBINE_COUNTIES", from entry i on,
\* whose "if country in country_leaderboard" holds; Len + 1 when none does.
RECURSIVE NextSource(_, _)
NextSource(country_leaderboard, i) ==
    IF i > Len(COMBINE_COUNTIES) THEN i
    ELSE IF COMBINE_COUNTIES[i][1] \in DOMAIN country_leaderboard THEN i
    ELSE NextSource(country_leaderboard, i + 1)

\* "for county in country_leaderboard: country_leaderboard[county].sort(...)"
SortCounties(country_leaderboard) ==
    [ county \in DOMAIN country_leaderboard |-> Sort(country_leaderboard[county]) ]

\* The peak flow's loop body: drop the None entries, then sort.
RankPeak(country_leaderboard) ==
    [ county \in DOMAIN country_leaderboard |->
        Sort(DropNone(country_leaderboard[county])) ]

(***************************************************************************)
(* The run.  The input of get_country_leaderboards: per country, the        *)
(* counties in sheet order, each with its leaf inputs (town links in the    *)
(* current-rating flow, (name, link) players in the peak-rating flow).      *)
(***************************************************************************)
VARIABLES
    flow,                       \* "current" or "peak": which program runs
    pc,                         \* "fetch", "rank", "done", "raised"
    country,                    \* index of the country being fetched
    try_count,                  \* per leaf worker of the country: its local try_count
    town_players,               \* per town worker: its local town_players
    player,                     \* per player worker: its parameter player
    player_details,             \* per player worker: its local player_details
    future,                     \* per leaf worker: "pending", "returned", "raised"
    county_future,              \* per county worker: result tuple, None, or raised
    finished,                   \* history: per country, county: leaf indices in
                                \* completion order
    all_country_leaderboards,   \* the list built by the first loop, then ranked
    ranking,                    \* second loop: index of the country being ranked
    entry,                      \* second loop: index of the next COMBINE_COUNTIES entry
    attempts,                   \* history: per country, county, leaf, each pass of the
                                \* while loop: the site's response and what was raised
    before,                     \* history: the last ranking step and the dict before it
    appended,                   \* history: the dicts as the first loop appended them
    sheet,                      \* which rows the source spreadsheet holds
    all_value_ranges,           \* the writer's payloads, None before it has run
    sheet_service,              \* Spreadsheet._sheet_service
    trace,                      \* history: one record per Spreadsheet operation called
    rowcol,                     \* rowcol_to_a1: its parameters (row, col)
    label,                      \* rowcol_to_a1: what it returned
    anchor,                     \* a player row of a town page: (name, href)
    formula,                    \* the cell text the writer made of that player
    pieces                      \* what the read path split that cell text into

vars == << flow, pc, country, try_count, town_players, player, player_details,
           future, county_future, finished, all_country_leaderboards, ranking, entry,
           attempts, before, appended, sheet, all_value_ranges, sheet_service, trace,
           rowcol, label, anchor, formula, pieces >>

\* What the fetching and ranking steps leave alone.
Elsewhere == << sheet, all_value_ranges, sheet_service, trace,
                rowcol, label, anchor, formula, pieces >>

NumCountries == 2

NarrowRows ==
    << << <<"Tyne and Wear", <<"t1", "t2">> >>, <<"Northumberland", <<"t3">> >> >>,
       << <<"Clwyd", <<"t4">> >> >>,
       << <<"Kent", <<"t5">> >> >> >>

\* Rows with more counties in a country than a pool has workers; a county
\* row may have no link at all.
WideRows ==
    << << <<"Clwyd", <<"t6">> >>, <<"Cornwall", <<"t6">> >>, <<"Cumbria", << >> >>,
          <<"Devon", << >> >>, <<"Dorset", << >> >>, <<"Durham", << >> >>,
          <<"Essex", << >> >>, <<"Kent", << >> >>, <<"Norfolk", << >> >>,
          <<"Suffolk", << >> >>, <<"Surrey", << >> >> >>,
       << <<"Fife", <<"t6", "t7">> >> >>,
       << <<"Gwent", <<"t6">> >> >> >>

SheetRows == IF sheet = "wide" THEN WideRows ELSE NarrowRows

all_town_links == SubSeq(SheetRows, 1, NumCountries)

PlayerOf(link) == << <<"P", link>>, link >>

all_players ==
    [ k \in 1..NumCountries |->
        [ c \in 1..Len(SheetRows[k]) |->
            << SheetRows[k][c][1],
               [ t \in 1..Len(SheetRows[k][c][2]) |-> PlayerOf(SheetRows[k][c][2][t]) ] >> ] ]

Input == IF flow = "current" THEN all_town_links ELSE all_players

Counties(k) == 1..Len(SheetRows[k])

Leaves(k, c) == 1..Len(SheetRows[k][c][2])

Raised == << "raised" >>

NoStep == [op |-> "none", k |-> 0, entry |-> 0, dict |-> << >>]

\* A Sheets object as main builds it: Sheets("creds.json") returns an object
\* whose _service is the built service, or None when building it failed.
SheetsObject(built) == [class |-> "Sheets", built |-> built]

\* Nothing has been written yet.
NotWritten == all_value_ranges = None /\ trace = << >>

\* No text conversion is being followed.
NoConversion ==
    rowcol = None /\ label = None /\ anchor = None /\ formula = None /\ pieces = None

\* The worker state of country k right after its pools are created.
Fresh(k, initial) == [ c \in Counties(k) |-> [ t \in Leaves(k, c) |-> initial ] ]

\* The state after construction, for the rows the source spreadsheet holds.
Start(rows) ==
    /\ flow \in {"current", "peak"}
    /\ sheet = rows
    /\ sheet_service = SheetsObject(TRUE)
    /\ NotWritten
    /\ NoConversion
    /\ pc = "fetch"
    /\ country = 1
    /\ try_count = Fresh(1, TRY_COUNT)
    /\ town_players = Fresh(1, << >>)
    /\ player = [ c \in Counties(1) |-> [ t \in Leaves(1, c) |-> all_players[1][c][2][t] ] ]
    /\ player_details = Fresh(1, None)
    /\ future = Fresh(1, "pending")
    /\ county_future = [ c \in Counties(1) |-> None ]
    /\ finished = [ k \in 1..NumCountries |-> [ c \in Counties(k) |-> << >> ] ]
    /\ all_country_leaderboards = << >>
    /\ ranking = 1
    /\ entry = 1
    /\ attempts = [ k \in 1..NumCountries |-> Fresh(k, << >>) ]
    /\ before = NoStep
    /\ appended = << >>

Init == Start("narrow")

(***************************************************************************)
(* ThreadPoolExecutor(max_workers=10).map: the items are queued in input    *)
(* order and at most max_workers of them are being worked on; the results   *)
(* are read from the futures in input order.                                *)
(***************************************************************************)
CountyDone(c) == county_future[c] # None

\* Fault: every county is started at once.
CountyStarted_all(c) == TRUE

CountyStarted(c) ==
    c <= max_workers + Cardinality({ d \in Counties(country) : CountyDone(d) })

LeafDone(c, t) == future[c][t] # "pending"

\* Fault: a leaf is started only once its county worker has returned, which
\* itself waits for its leaves.
LeafStarted_waits(c, t) ==
    /\ CountyDone(c)
    /\ t <= max_workers + Cardinality({ u \in Leaves(country, c) : LeafDone(c, u) })

LeafStarted(c, t) ==
    /\ CountyStarted(c)
    /\ t <= max_workers + Cardinality({ u \in Leaves(country, c) : LeafDone(c, u) })

\* Fault: a county returns as soon as one of its leaves is done.
AllLeavesDone_some(c) == \E t \in Leaves(country, c) : LeafDone(c, t)

\* Fault: the results are taken as the workers complete.
MapResults_completed(results, order) == [ i \in 1..Len(results) |-> results[order[i]] ]

\* list(executor.map(worker, items)): element i is the result of worker i.
MapResults(results, order) == [ i \in 1..Len(results) |-> results[i] ]

(***************************************************************************)
(* get_town_players: one pass of the while loop.                            *)
(***************************************************************************)
\* Fault: the else branch is missing, so a pass that completes counts as a try.
NextTryCount_noelse(n, exc) == n - 1

\* try_count after a pass that raised exc ("none": the else branch).
NextTryCount(n, exc) == IF exc = "none" THEN 0 ELSE n - 1

\* Fault: the except branch does not empty the list.
NextTownPlayers_kept(tried, exc) == tried

\* town_players after a pass that raised exc.
NextTownPlayers(tried, exc) == IF exc = "none" THEN tried ELSE << >>

get_town_players(c, t) ==
    /\ pc = "fetch" /\ flow = "current"
    /\ LeafStarted(c, t) /\ ~LeafDone(c, t)
    /\ \E resp \in TownResponses(Input[country][c][2][t]) :
         LET r == TownTry(resp, town_players[c][t])
             caught == r.exc = "none" \/ Catches(r.exc)
             n == NextTryCount(try_count[c][t], r.exc)
         IN  /\ attempts' = [attempts EXCEPT ![country][c][t] = Append(@, [resp |-> resp, exc |-> r.exc])]
             /\ try_count' = [try_count EXCEPT ![c][t] = IF caught THEN n ELSE @]
             /\ town_players' = [town_players EXCEPT ![c][t] =
                                    IF caught THEN NextTownPlayers(r.town_players, r.exc)
                                    ELSE r.town_players]
             /\ future' = [future EXCEPT ![c][t] =
                              IF ~caught THEN "raised"
                              ELSE IF n > 0 THEN "pending" ELSE "returned"]
             /\ finished' = [finished EXCEPT ![country][c] =
                                IF caught /\ n > 0 THEN @ ELSE Append(@, t)]
    /\ UNCHANGED << flow, pc, country, player, player_details, county_future,
                    all_country_leaderboards, ranking, entry, before, appended >>
    /\ UNCHANGED Elsewhere

(***************************************************************************)
(* get_player_mmrs: one pass of the while loop.                             *)
(***************************************************************************)
\* The name the except branch sets to None.
NextPlayer(p, exc) == IF exc = "none" THEN p ELSE None

\* player_details after a pass that raised exc.
NextPlayerDetails(tried, exc) == tried

get_player_mmrs(c, t) ==
    /\ pc = "fetch" /\ flow = "peak"
    /\ LeafStarted(c, t) /\ ~LeafDone(c, t)
    /\ \E resp \in ProfileResponses(Input[country][c][2][t][2]) :
         LET r == PlayerTry(resp, player[c][t], player_details[c][t])
             caught == r.exc = "none" \/ Catches(r.exc)
             n == NextTryCount(try_count[c][t], r.exc)
         IN  /\ attempts' = [attempts EXCEPT ![country][c][t] = Append(@, [resp |-> resp, exc |-> r.exc])]
             /\ try_count' = [try_count EXCEPT ![c][t] = IF caught THEN n ELSE @]
             /\ player' = [player EXCEPT ![c][t] =
                              IF caught THEN NextPlayer(@, r.exc) ELSE @]
             /\ player_details' = [player_details EXCEPT ![c][t] =
                                      IF caught THEN NextPlayerDetails(r.player_details, r.exc)
                                      ELSE r.player_details]
             /\ future' = [future EXCEPT ![c][t] =
                              IF ~caught THEN "raised"
                              ELSE IF n > 0 THEN "pending" ELSE "returned"]
             /\ finished' = [finished EXCEPT ![country][c] =
                                IF caught /\ n > 0 THEN @ ELSE Append(@, t)]
    /\ UNCHANGED << flow, pc, country, town_players, county_future,
                    all_country_leaderboards, ranking, entry, before, appended >>
    /\ UNCHANGED Elsewhere

(***************************************************************************)
(* get_county_players / get_county_mmrs: the county worker returns once     *)
(* its pool has drained (the with block joins the workers); a leaf future   *)
(* that holds an exception re-raises it from the map.                       *)
(***************************************************************************)
AllLeavesDone(c) == \A t \in Leaves(country, c) : LeafDone(c, t)

SomeLeafRaised(c) == \E t \in Leaves(country, c) : future[c][t] = "raised"

get_county_players(c) ==
    /\ pc = "fetch" /\ flow = "current"
    /\ CountyStarted(c)
    /\ ~CountyDone(c) /\ AllLeavesDone(c)
    /\ county_future' = [county_future EXCEPT ![c] =
           IF SomeLeafRaised(c) THEN Raised
           ELSE << Input[country][c][1],
                   Flatten(MapResults(town_players[c], finished[country][c])) >>]
    /\ UNCHANGED << flow, pc, country, try_count, town_players, player, player_details,
                    future, finished, all_country_leaderboards, ranking, entry, attempts,
                    before, appended >>
    /\ UNCHANGED Elsewhere

get_county_mmrs(c) ==
    /\ pc = "fetch" /\ flow = "peak"
    /\ CountyStarted(c)
    /\ ~CountyDone(c) /\ AllLeavesDone(c)
    /\ county_future' = [county_future EXCEPT ![c] =
           IF SomeLeafRaised(c) THEN Raised
           ELSE << Input[country][c][1],
                   MapResults(player_details[c], finished[country][c]) >>]
    /\ UNCHANGED << flow, pc, country, try_count, town_players, player, player_details,
                    future, finished, all_country_leaderboards, ranking, entry, attempts,
                    before, appended >>
    /\ UNCHANGED Elsewhere

(***************************************************************************)
(* get_country_leaderboards, first loop: one country's dict is appended     *)
(* once its county pool has drained, then the next country is fetched.      *)
(***************************************************************************)
AllCountiesDone == \A c \in Counties(country) : CountyDone(c)

SomeCountyRaised == \E c \in Counties(country) : county_future[c] = Raised

collect_country ==
    /\ pc = "fetch"
    /\ AllCountiesDone
    /\ IF SomeCountyRaised
       THEN /\ pc' = "raised"
            /\ UNCHANGED << country, try_count, town_players, player, player_details,
                            future, county_future, all_country_leaderboards, entry,
                            appended >>
       ELSE /\ all_country_leaderboards' =
                   Append(all_country_leaderboards, DictOf(county_future))
            /\ appended' = Append(appended, DictOf(county_future))
            /\ IF country < NumCountries
               THEN /\ pc' = pc
                    /\ country' = country + 1
                    /\ try_count' = Fresh(country + 1, TRY_COUNT)
                    /\ town_players' = Fresh(country + 1, << >>)
                    /\ player' = [ c \in Counties(country + 1) |->
                                     [ t \in Leaves(country + 1, c) |->
                                         all_players[country + 1][c][2][t] ] ]
                    /\ player_details' = Fresh(country + 1, None)
                    /\ future' = Fresh(country + 1, "pending")
                    /\ county_future' = [ c \in Counties(country + 1) |-> None ]
                    /\ entry' = entry
               ELSE /\ pc' = "rank"
                    /\ entry' = NextSource(all_country_leaderboards'[1], 1)
                    /\ UNCHANGED << country, try_count, town_players, player,
                                    player_details, future, county_future >>
    /\ UNCHANGED << flow, ranking, attempts, before, finished >>
    /\ UNCHANGED Elsewhere

(***************************************************************************)
(* get_country_leaderboards, second loop, country by country: the merge     *)
(* under COMBINE_COUNTIES (current flow only), then the sort.               *)
(***************************************************************************)
Step(op) ==
    [op |-> op, k |-> ranking, entry |-> entry, dict |-> all_country_leaderboards[ranking]]

\* Moves the second loop on to the next country, or ends it.
NextCountry ==
    /\ ranking' = ranking + 1
    /\ pc' = IF ranking < Len(all_country_leaderboards) THEN "rank" ELSE "done"
    /\ entry' = IF ranking < Len(all_country_leaderboards)
                THEN NextSource(all_country_leaderboards[ranking + 1], 1)
                ELSE entry

Fetching == << country, try_count, town_players, player, player_details, future,
               county_future, finished, attempts, appended >>

\* One iteration of "for country in COMBINE_COUNTIES" whose source is present.
merge_entry ==
    /\ pc = "rank" /\ flow = "current"
    /\ entry <= Len(COMBINE_COUNTIES)
    /\ before' = Step("merge")
    /\ all_country_leaderboards' =
           [all_country_leaderboards EXCEPT ![ranking] =
               MergeEntry(@, COMBINE_COUNTIES[entry])]
    /\ entry' = NextSource(all_country_leaderboards'[ranking], entry + 1)
    /\ UNCHANGED << flow, pc, ranking >>
    /\ UNCHANGED Fetching
    /\ UNCHANGED Elsewhere

sort_counties ==
    /\ pc = "rank" /\ flow = "current"
    /\ entry > Len(COMBINE_COUNTIES)
    /\ before' = Step("sort")
    /\ all_country_leaderboards' =
           [all_country_leaderboards EXCEPT ![ranking] = SortCounties(@)]
    /\ NextCountry
    /\ UNCHANGED flow
    /\ UNCHANGED Fetching
    /\ UNCHANGED Elsewhere

rank_peak ==
    /\ pc = "rank" /\ flow = "peak"
    /\ before' = Step("sort")
    /\ all_country_leaderboards' =
           [all_country_leaderboards EXCEPT ![ranking] = RankPeak(@)]
    /\ NextCountry
    /\ UNCHANGED flow
    /\ UNCHANGED Fetching
    /\ UNCHANGED Elsewhere

Next ==
    \/ \E c \in Counties(country) : \E t \in Leaves(country, c) : get_town_players(c, t)
    \/ \E c \in Counties(country) : \E t \in Leaves(country, c) : get_player_mmrs(c, t)
    \/ \E c \in Counties(country) : get_county_players(c)
    \/ \E c \in Counties(country) : get_county_mmrs(c)
    \/ collect_country
    \/ merge_entry
    \/ sort_counties
    \/ rank_peak

Spec == Init /\ [][Next]_vars

\* The same run on rows that fill the pools beyond their workers.
InitPool == Start("wide")

SpecPool == InitPool /\ [][Next]_vars

(***************************************************************************)
(* The run on either rows, with every GET attempt returning or raising in   *)
(* the end and the pool workers scheduled fairly.                           *)
(***************************************************************************)
InitLive == Start("narrow") \/ Start("wide")

\* A leaf worker holds a thread and is in its while loop.
CanPass(c, t) == pc = "fetch" /\ LeafStarted(c, t) /\ ~LeafDone(c, t)

\* A county worker holds a thread and its own pool has drained.
CanReturn(c) == pc = "fetch" /\ CountyStarted(c) /\ ~CountyDone(c) /\ AllLeavesDone(c)

\* The guards of Next: some worker or the main thread can take a step.
CanStep ==
    \/ \E c \in Counties(country) : \E t \in Leaves(country, c) : CanPass(c, t)
    \/ \E c \in Counties(country) : CanReturn(c)
    \/ pc = "fetch" /\ AllCountiesDone
    \/ pc = "rank"

\* WF_vars(Next) written out, CanStep being the enabling condition of Next:
\* a step that stays possible is taken in the end.
Fairness == []<>(~CanStep) \/ []<><<Next>>_vars

SpecLive == InitLive /\ [][Next]_vars /\ Fairness

(***************************************************************************)
(* The second loop on its own: get_country_leaderboards' ranking applied    *)
(* to every country dict of at most MaxCounties counties and MaxPlayers     *)
(* players in all.  A drawn player is named after its county and position,  *)
(* so equal ratings stay distinguishable; in the peak flow a list entry     *)
(* may be None (drawn as the cell 0).                                       *)
(***************************************************************************)
MaxCounties == 2

MaxPlayers == 4

CountyNames == <<"Kent", "Tyne and Wear", "Northumberland", "Clwyd", "Gwynedd">>

CountyInitials == <<"K", "T", "N", "C", "G">>

Ratings == {1500, 1800}

RECURSIVE Ascending(_)
Ascending(S) ==
    IF S = {} THEN << >>
    ELSE LET m == CHOOSE x \in S : \A y \in S : x <= y
         IN  << m >> \o Ascending(S \ {m})

\* Every way to give each of n counties a list of cells, budget cells in all.
RECURSIVE DrawLists(_, _, _)
DrawLists(n, budget, cells) ==
    IF n = 0 THEN { << >> }
    ELSE UNION { { << l >> \o rest : rest \in DrawLists(n - 1, budget - Len(l), cells) } :
                 l \in SeqsUpTo(cells, budget) }

DrawnPlayer(i, j, cell) ==
    IF cell = 0 THEN None
    ELSE << << CountyInitials[i], Digits[j + 1] >>,
            << ORIGIN, << "/", CountyInitials[i], Digits[j + 1] >> >>,
            cell >>

DrawnDict(S, lists) ==
    LET idx == Ascending(S)
    IN  [ name \in { CountyNames[i] : i \in S } |->
            LET n == CHOOSE m \in 1..Len(idx) : CountyNames[idx[m]] = name
            IN  [ j \in 1..Len(lists[n]) |-> DrawnPlayer(idx[n], j, lists[n][j]) ] ]

InitRank ==
    /\ flow \in {"current", "peak"}
    /\ sheet = "narrow"
    /\ sheet_service = SheetsObject(TRUE)
    /\ NotWritten
    /\ NoConversion
    /\ pc = "rank"
    /\ country = 1
    /\ try_count = << >>
    /\ town_players = << >>
    /\ player = << >>
    /\ player_details = << >>
    /\ future = << >>
    /\ county_future = << >>
    /\ finished = << >>
    /\ attempts = << >>
    /\ ranking = 1
    /\ before = NoStep
    /\ \E S \in SUBSET (1..Len(CountyNames)) :
         /\ Cardinality(S) <= MaxCounties
         /\ \E lists \in DrawLists(Cardinality(S), MaxPlayers,
                                   IF flow = "current" THEN Ratings
                                   ELSE Ratings \cup {0}) :
              /\ all_country_leaderboards = << DrawnDict(S, lists) >>
              /\ appended = << DrawnDict(S, lists) >>
              /\ entry = NextSource(DrawnDict(S, lists), 1)

(***************************************************************************)
(* rowcol_to_a1, the same function in both writers, on its own: applied to  *)
(* every cell of the first MaxRow rows and MaxCol columns.                  *)
(***************************************************************************)
MaxRow == 2

MaxCol == 703

Letters == <<"A", "B", "C", "D", "E", "F", "G", "H", "I", "J", "K", "L", "M",
             "N", "O", "P", "Q", "R", "S", "T", "U", "V", "W", "X", "Y", "Z">>

\* chr(n) for the code points of the capital letters.
Chr(n) == Letters[n - 64]

\* Fault: a remainder of 0 becomes "Z" without borrowing from the next place.
RECURSIVE ColumnLabel_noborrow(_)
ColumnLabel_noborrow(div) ==
    IF div = 0 THEN << >>
    ELSE IF div % 26 = 0 THEN ColumnLabel_noborrow(div \div 26) \o << Chr(26 + 64) >>
    ELSE ColumnLabel_noborrow(div \div 26) \o << Chr((div % 26) + 64) >>

\* The while loop: column_label after it has run from div.
RECURSIVE ColumnLabel(_)
ColumnLabel(div) ==
    IF div = 0 THEN << >>
    ELSE IF div % 26 = 0 THEN ColumnLabel((div \div 26) - 1) \o << Chr(26 + 64) >>
    ELSE ColumnLabel(div \div 26) \o << Chr((div % 26) + 64) >>

\* '%s%s' % (column_label, row)
rowcol_to_a1(row, col) == ColumnLabel(col) \o DecimalText(row)

\* No run of get_country_leaderboards is being followed.
NoRun ==
    /\ sheet = "narrow"
    /\ country = 1
    /\ try_count = << >>
    /\ town_players = << >>
    /\ player = << >>
    /\ player_details = << >>
    /\ future = << >>
    /\ county_future = << >>
    /\ finished = << >>
    /\ attempts = << >>
    /\ all_country_leaderboards = << >>
    /\ ranking = 1
    /\ entry = 1
    /\ before = NoStep
    /\ appended = << >>

Running == << flow, country, try_count, town_players, player, player_details, future,
             county_future, finished, all_country_leaderboards, ranking, entry,
             attempts, before, appended, sheet >>

InitA1 ==
    /\ flow \in {"current", "peak"}
    /\ pc = "cell"
    /\ NoRun
    /\ sheet_service = SheetsObject(TRUE)
    /\ NotWritten
    /\ rowcol \in (1..MaxRow) \X (1..MaxCol)
    /\ label = None
    /\ anchor = None /\ formula = None /\ pieces = None

call_rowcol_to_a1 ==
    /\ pc = "cell"
    /\ label' = rowcol_to_a1(rowcol[1], rowcol[2])
    /\ pc' = "label"
    /\ UNCHANGED << rowcol, anchor, formula, pieces, all_value_ranges, sheet_service, trace >>
    /\ UNCHANGED Running

NextA1 == call_rowcol_to_a1

SpecA1 == InitA1 /\ [][NextA1]_vars

(***************************************************************************)
(* Sheets and Spreadsheet.  A service object is given by its class and by   *)
(* whether its _service was built.  The outcome of a Spreadsheet operation  *)
(* is what it returned (result), the exception its wrapper caught (exc),    *)
(* the exception that left it (raised) and the attributes it asked of the   *)
(* service, in order, each with what the lookup or the call raised          *)
(* (lookups).  api lists what the Google API would answer to the requests   *)
(* executed, in order: "ok" or "HttpError".                                 *)
(***************************************************************************)
\* The methods class Sheets defines that take a spreadsheet id, each with the
\* number of parameters after self.
SheetsMethods ==
    [ get_ranges_values |-> 4, update_ranges_values |-> 3, get_worksheet_data |-> 1,
      autosize_worksheets |-> 3, clear_worksheet_values |-> 2 ]

\* The API request each of them executes.
Request ==
    [ get_ranges_values |-> "values.batchGet", update_ranges_values |-> "values.batchUpdate",
      get_worksheet_data |-> "spreadsheets.get", autosize_worksheets |-> "spreadsheets.batchUpdate",
      clear_worksheet_values |-> "values.batchClear" ]

\* What each Spreadsheet method asks of its service: the attribute and the
\* number of arguments it passes.
Delegate ==
    [ get_ranges_values |-> [attr |-> "spreadsheet_get_ranges_values", args |-> 3],
      clear_ranges_values |-> [attr |-> "spreadsheet_clear_worksheet_values", args |-> 2],
      update_ranges_values |-> [attr |-> "spreadsheet_update_ranges_values", args |-> 3],
      autosize_all_columns |-> [attr |-> "spreadsheet_autosize_worksheets", args |-> 3],
      get_worksheet_data |-> [attr |-> "spreadsheet_get_worksheet_data", args |-> 1] ]

\* The optional parameters each Spreadsheet method declares.
Keywords ==
    [ get_ranges_values |-> {"value_render_option"},
      clear_ranges_values |-> {},
      update_ranges_values |-> {"value_input_option"},
      autosize_all_columns |-> {},
      get_worksheet_data |-> {} ]

ApiOutcomes == {"ok", "HttpError"}

\* self._sheet_service.<attr>(<args arguments>): the exception raised ("none"
\* when the request was executed and answered) and the answer.
ServiceCall(service, attr, args, answer) ==
    LET exc == IF attr \notin DOMAIN SheetsMethods THEN "AttributeError"
               ELSE IF SheetsMethods[attr] # args THEN "TypeError"
               ELSE IF ~service.built THEN "AttributeError"
               ELSE IF answer # "ok" THEN answer
               ELSE "none"
    IN  [exc |-> exc,
         result |-> IF exc = "none" THEN << Request[attr] >> ELSE None,
         lookups |-> << [attr |-> attr, exc |-> exc] >>]

\* Fault: the wrapper has no except clause.
sheet_service_function_bare(service, accepted, body) ==
    LET exc == IF service.class # "Sheets" THEN "AssertionError"
               ELSE IF ~accepted THEN "TypeError"
               ELSE body.exc
        ran == service.class = "Sheets" /\ accepted
    IN  [result |-> IF exc = "none" THEN body.result ELSE None,
         exc |-> "none",
         raised |-> exc,
         lookups |-> IF ran THEN body.lookups ELSE << >>]

\* _wrapper_sheet_service_function: the assert, then the wrapped method
\* (accepted: its parameters bind the arguments given), inside try/except.
sheet_service_function(service, accepted, body) ==
    LET exc == IF service.class # "Sheets" THEN "AssertionError"
               ELSE IF ~accepted THEN "TypeError"
               ELSE body.exc
        ran == service.class = "Sheets" /\ accepted
    IN  [result |-> IF exc = "none" THEN body.result ELSE None,
         exc |-> exc,
         raised |-> "none",
         lookups |-> IF ran THEN body.lookups ELSE << >>]

\* A wrapped method whose body is one call on the service.
Delegating(op, service, keywords, answer) ==
    sheet_service_function(service, keywords \subseteq Keywords[op],
        ServiceCall(service, Delegate[op].attr, Delegate[op].args, answer))

\* The body of autosize_all_columns: self.get_worksheet_data()["sheets"],
\* then the call on the service.
AutosizeBody(service, api) ==
    LET data == Delegating("get_worksheet_data", service, {}, api[1])
    IN  IF data.raised # "none"
        THEN [exc |-> data.raised, result |-> None, lookups |-> data.lookups]
        ELSE IF data.result = None
        THEN [exc |-> "TypeError", result |-> None, lookups |-> data.lookups]
        ELSE LET sized == ServiceCall(service, Delegate["autosize_all_columns"].attr,
                                      Delegate["autosize_all_columns"].args, api[2])
             IN  [exc |-> sized.exc, result |-> sized.result,
                  lookups |-> data.lookups \o sized.lookups]

\* spreadsheet.<op>(..., **keywords) on a Spreadsheet with this service.
Spreadsheet(op, service, keywords, api) ==
    IF op = "autosize_all_columns"
    THEN sheet_service_function(service, keywords \subseteq Keywords[op],
                                AutosizeBody(service, api))
    ELSE Delegating(op, service, keywords, api[1])

\* The record trace keeps of one operation.
Called(op, service, keywords, api) ==
    LET out == Spreadsheet(op, service, keywords, api)
    IN  [op |-> op, keywords |-> keywords, api |-> api, result |-> out.result,
         exc |-> out.exc, raised |-> out.raised, lookups |-> out.lookups]

(***************************************************************************)
(* A Spreadsheet on its own: built on any service object, its five wrapped  *)
(* operations called in any order, at most MaxCalls times, with any of the  *)
(* keyword arguments a caller passes and any answers of the API.            *)
(***************************************************************************)
MaxCalls == 2

\* What a Spreadsheet may be given as its service.
Services ==
    { SheetsObject(TRUE), SheetsObject(FALSE),
      [class |-> "NoneType", built |-> FALSE], [class |-> "str", built |-> FALSE] }

Apis(n) == [ 1..n -> ApiOutcomes ]

InitSheet ==
    /\ flow \in {"current", "peak"}
    /\ pc = "sheet"
    /\ NoRun
    /\ sheet_service \in Services
    /\ NotWritten
    /\ NoConversion

Call(op, keywords, api) ==
    /\ Len(trace) < MaxCalls
    /\ trace' = Append(trace, Called(op, sheet_service, keywords, api))
    /\ pc' = IF trace'[Len(trace')].raised # "none" THEN "raised" ELSE pc
    /\ UNCHANGED << all_value_ranges, sheet_service, rowcol, label, anchor, formula, pieces >>
    /\ UNCHANGED Running

\* As the current flow's main calls it (value_render_option), as the peak
\* flow's main does (and major_dimension), or with the defaults.
get_ranges_values ==
    /\ pc = "sheet"
    /\ \E keywords \in { {}, {"value_render_option"},
                          {"value_render_option", "major_dimension"} } :
         \E api \in Apis(1) : Call("get_ranges_values", keywords, api)

clear_ranges_values ==
    /\ pc = "sheet"
    /\ \E api \in Apis(1) : Call("clear_ranges_values", {}, api)

update_ranges_values ==
    /\ pc = "sheet"
    /\ \E keywords \in { {}, {"value_input_option"} } :
         \E api \in Apis(1) : Call("update_ranges_values", keywords, api)

autosize_all_columns ==
    /\ pc = "sheet"
    /\ \E api \in Apis(2) : Call("autosize_all_columns", {}, api)

get_worksheet_data ==
    /\ pc = "sheet"
    /\ \E api \in Apis(1) : Call("get_worksheet_data", {}, api)

NextSheet ==
    \/ get_ranges_values
    \/ clear_ranges_values
    \/ update_ranges_values
    \/ autosize_all_columns
    \/ get_worksheet_data

SpecSheet == InitSheet /\ [][NextSheet]_vars

(***************************************************************************)
(* write_country_leaderboards and write_all_leaderboards.  Text is a        *)
(* sequence of pieces of text; a piece longer than one character holds no   *)
(* double quote, "!" or ":".                                                *)
(***************************************************************************)
SheetNames == <<"England", "Scotland", "Wales", "Northern Ireland", "Other">>

\* The characters of the county names, for sorted().
Spelling(name) ==
    CASE name = "Kent" -> <<"K", "e", "n", "t">>
      [] name = "Tyne and Wear" ->
             <<"T", "y", "n", "e", " ", "a", "n", "d", " ", "W", "e", "a", "r">>
      [] name = "Northumberland" ->
             <<"N", "o", "r", "t", "h", "u", "m", "b", "e", "r", "l", "a", "n", "d">>
      [] name = "Clwyd" -> <<"C", "l", "w", "y", "d">>
      [] name = "Gwynedd" -> <<"G", "w", "y", "n", "e", "d", "d">>
      [] name = "North Wales" -> <<"N", "o", "r", "t", "h", " ", "W", "a", "l", "e", "s">>

\* The characters of those names in code point order.
CodePoints ==
    <<" ">> \o Letters \o
    <<"a", "b", "c", "d", "e", "f", "g", "h", "i", "j", "k", "l", "m",
      "n", "o", "p", "q", "r", "s", "t", "u", "v", "w", "x", "y", "z">>

Ord(ch) == CHOOSE i \in 1..Len(CodePoints) : CodePoints[i] = ch

\* str < str: the first differing character decides, a proper prefix is less.
RECURSIVE Less(_, _)
Less(a, b) ==
    IF b = << >> THEN FALSE
    ELSE IF a = << >> THEN TRUE
    ELSE IF Head(a) # Head(b) THEN Ord(Head(a)) < Ord(Head(b))
    ELSE Less(Tail(a), Tail(b))

\* Fault: the counties are taken in descending order.
RECURSIVE sorted_reverse(_)
sorted_reverse(names) ==
    IF names = {} THEN << >>
    ELSE LET last == CHOOSE n \in names :
                         \A m \in names \ {n} : Less(Spelling(m), Spelling(n))
         IN  << last >> \o sorted_reverse(names \ {last})

\* sorted(dict): the keys in ascending order.
RECURSIVE sorted(_)
sorted(names) ==
    IF names = {} THEN << >>
    ELSE LET first == CHOOSE n \in names :
                          \A m \in names \ {n} : Less(Spelling(n), Spelling(m))
         IN  << first >> \o sorted(names \ {first})

\* A player's link as text: the origin followed by the href.
UrlText(link) == << link[1] >> \o link[2]

\* '=HYPERLINK("{}", "{}")'.format(url, name)
Hyperlink(url, name) ==
    <<"=HYPERLINK(", "\"">> \o url \o <<"\"", ", ", "\"">> \o name \o <<"\"", ")">>

\* Fault: rank starts at 0.
PlayerRows_zero(players) ==
    [ i \in 1..Len(players) |->
        << i - 1, Hyperlink(UrlText(players[i][2]), players[i][1]), players[i][3] >> ]

\* The rows the loop over the players appends: rank counts from 1.
PlayerRows(players) ==
    [ i \in 1..Len(players) |->
        << i, Hyperlink(UrlText(players[i][2]), players[i][1]), players[i][3] >> ]

\* One value range; rank is one more than the number of players.
ValueRange(sheet_name, counties, players, start_col, rating) ==
    LET data == << << "Rank", counties, rating >> >> \o PlayerRows(players)
        rank == Len(players) + 1
    IN  [range |-> << sheet_name, "!" >> \o rowcol_to_a1(1, start_col) \o << ":" >>
                       \o rowcol_to_a1(rank, start_col + 2),
         values |-> data]

\* The loop over the sorted counties of one sheet, from start_col on.
RECURSIVE SheetRanges(_, _, _, _, _)
SheetRanges(sheet_name, leaderboard, counties, start_col, rating) ==
    IF counties = << >> THEN << >>
    ELSE << ValueRange(sheet_name, Head(counties), leaderboard[Head(counties)],
                       start_col, rating) >>
         \o SheetRanges(sheet_name, leaderboard, Tail(counties), start_col + 4, rating)

\* all_value_ranges once the loop over args has ended.
AllValueRanges(all_leaderboards, args, rating) ==
    Flatten([ i \in 1..Len(args) |->
                SheetRanges(args[i], all_leaderboards[i],
                            sorted(DOMAIN all_leaderboards[i]), 1, rating) ])

\* Fault: the update is made before the clear.
WriterCalls_swapped(service, api) ==
    LET clear == Called("clear_ranges_values", service, {}, << api[1] >>)
        update == Called("update_ranges_values", service, {}, << api[2] >>)
        autosize == Called("autosize_all_columns", service, {}, << api[3], api[4] >>)
    IN  IF update.raised # "none" THEN << update >>
        ELSE IF clear.raised # "none" THEN << update, clear >>
        ELSE << update, clear, autosize >>

\* The three operations on the destination, in the order the writer makes
\* them; an exception leaving one of them ends the writer.
WriterCalls(service, api) ==
    LET clear == Called("clear_ranges_values", service, {}, << api[1] >>)
        update == Called("update_ranges_values", service, {}, << api[2] >>)
        autosize == Called("autosize_all_columns", service, {}, << api[3], api[4] >>)
    IN  IF clear.raised # "none" THEN << clear >>
        ELSE IF update.raised # "none" THEN << clear, update >>
        ELSE << clear, update, autosize >>

\* The API answers every request of one run alike.
WriterApis == { [ i \in 1..4 |-> answer ] : answer \in ApiOutcomes }

\* The sheet names main passes, one per country.
Args == SubSeq(SheetNames, 1, Len(all_country_leaderboards))

Write(rating) ==
    /\ pc = "done"
    /\ all_value_ranges' = AllValueRanges(all_country_leaderboards, Args, rating)
    /\ \E api \in WriterApis :
         /\ trace' = WriterCalls(sheet_service, api)
         /\ pc' = IF trace'[Len(trace')].raised # "none" THEN "raised" ELSE "written"
    /\ UNCHANGED << sheet_service, rowcol, label, anchor, formula, pieces >>
    /\ UNCHANGED Running

write_country_leaderboards == flow = "current" /\ Write("3's MMR")

write_all_leaderboards == flow = "peak" /\ Write("3's Peak MMR")

(***************************************************************************)
(* A player's name and link from the town page to the sheet and back: the   *)
(* row is parsed as get_town_players parses it, the writer makes the cell   *)
(* text of the player, and the read path (parse_leaderboard_data, and       *)
(* generate_town_links for town links) splits that text on the double       *)
(* quote.  The anchor's text is any text of at most MaxName characters.     *)
(***************************************************************************)
MaxName == 3

NameChars == {"A", "'", "\""}

Hrefs == { <<"/", "a">>, <<"/", "\"", "a">> }

InitLink ==
    /\ flow = "current"
    /\ pc = "anchor"
    /\ NoRun
    /\ sheet_service = SheetsObject(TRUE)
    /\ NotWritten
    /\ rowcol = None /\ label = None
    /\ anchor \in [name : SeqsUpTo(NameChars, MaxName), href : Hrefs]
    /\ formula = None
    /\ pieces = None

Unlinked == << flow, country, try_count, player, player_details, future, county_future,
              finished, all_country_leaderboards, ranking, entry, attempts, before,
              appended, sheet, all_value_ranges, sheet_service, trace, rowcol, label,
              anchor >>

\* The body of the inner try for the anchor's row.
parse_row ==
    /\ pc = "anchor"
    /\ town_players' = Append(town_players, RowPlayer(Row(anchor.name, anchor.href, <<"1">>)))
    /\ pc' = "player"
    /\ UNCHANGED << formula, pieces >>
    /\ UNCHANGED Unlinked

\* The writer's cell for the player.
write_formula ==
    /\ pc = "player"
    /\ formula' = Hyperlink(UrlText(town_players[1][2]), town_players[1][1])
    /\ pc' = "cell"
    /\ UNCHANGED << town_players, pieces >>
    /\ UNCHANGED Unlinked

\* x.split('"')
read_formula ==
    /\ pc = "cell"
    /\ pieces' = SplitOn(formula, "\"")
    /\ pc' = "read"
    /\ UNCHANGED << town_players, formula >>
    /\ UNCHANGED Unlinked

NextLink == parse_row \/ write_formula \/ read_formula

SpecLink == InitLink /\ [][NextLink]_vars

\* The second loop and the writer, from every drawn dict.
NextRank ==
    \/ merge_entry
    \/ sort_counties
    \/ rank_peak
    \/ write_country_leaderboards
    \/ write_all_leaderboards

SpecRank == InitRank /\ [][NextRank]_vars

(***************************************************************************)
(* The merge and the sort of the current-rating flow on every mapping       *)
(* whose keys are some of MergedNames: sources of the table, two of them    *)
(* with the same target, targets, and a name the table does not mention.    *)
(* Each county has PlayersEach players, named after the county and their    *)
(* position.                                                                *)
(***************************************************************************)
PlayersEach == 2

MergedNames ==
    {"Kent", "Tyne and Wear", "Northumberland", "Clwyd", "Gwynedd", "North Wales"}

CountyList(name) ==
    [ j \in 1..PlayersEach |->
        << << name, Digits[j + 1] >>,
           << ORIGIN, << "/", name, Digits[j + 1] >> >>,
           IF j % 2 = 1 THEN 1500 ELSE 1800 >> ]

InitMerge ==
    /\ flow = "current"
    /\ sheet = "narrow"
    /\ sheet_service = SheetsObject(TRUE)
    /\ NotWritten
    /\ NoConversion
    /\ pc = "rank"
    /\ country = 1
    /\ try_count = << >>
    /\ town_players = << >>
    /\ player = << >>
    /\ player_details = << >>
    /\ future = << >>
    /\ county_future = << >>
    /\ finished = << >>
    /\ attempts = << >>
    /\ ranking = 1
    /\ before = NoStep
    /\ \E S \in SUBSET MergedNames :
         /\ all_country_leaderboards = << [ name \in S |-> CountyList(name) ] >>
         /\ appended = all_country_leaderboards
         /\ entry = NextSource(all_country_leaderboards[1], 1)

NextMerge == merge_entry \/ sort_counties

SpecMerge == InitMerge /\ [][NextMerge]_vars

(***************************************************************************)
(* The writers on their own: called with a Spreadsheet on any service       *)
(* object and the ranked mapping of a country keyed by some of              *)
(* MergedNames, none of them a source in the current-rating flow.           *)
(***************************************************************************)
NoSource(names) ==
    \A name \in names : \A i \in 1..Len(COMBINE_COUNTIES) : COMBINE_COUNTIES[i][1] # name

InitWrite ==
    /\ flow \in {"current", "peak"}
    /\ sheet = "narrow"
    /\ sheet_service \in Services
    /\ NotWritten
    /\ NoConversion
    /\ pc = "done"
    /\ country = 1
    /\ try_count = << >>
    /\ town_players = << >>
    /\ player = << >>
    /\ player_details = << >>
    /\ future = << >>
    /\ county_future = << >>
    /\ finished = << >>
    /\ attempts = << >>
    /\ ranking = 2
    /\ \E S \in SUBSET MergedNames :
         /\ flow = "current" => NoSource(S)
         /\ appended = << [ name \in S |-> CountyList(name) ] >>
         /\ all_country_leaderboards = << SortCounties(appended[1]) >>
         /\ entry = NextSource(appended[1], 1)
         /\ before = [op |-> "sort", k |-> 1, entry |-> entry, dict |-> appended[1]]

NextWrite == write_country_leaderboards \/ write_all_leaderboards

SpecWrite == InitWrite /\ [][NextWrite]_vars

(***************************************************************************)
(* Properties.  What a leaf worker was given is read from the history       *)
(* variable attempts: one record per pass of its while loop.                *)
(***************************************************************************)
Fails(pass) == pass.exc # "none"

Last(log) == log[Len(log)]

Completed(log) == log # << >> /\ ~Fails(Last(log))

Returned(c) == county_future[c] # None /\ county_future[c] # Raised

\* The conforming rows of a served page after its first two, as players.
Conforms(row) == RowException(row) = "none"

PagePlayers(resp) ==
    LET rows == SelectSeq(SubSeq(Page(resp), 3, Len(Page(resp))), Conforms)
    IN  [ i \in 1..Len(rows) |-> RowPlayer(rows[i]) ]

\* What a town contributes, going by its own passes alone.
TownExpected(log) == IF Completed(log) THEN PagePlayers(Last(log).resp) ELSE << >>

CountyExpected(k, c) ==
    Flatten([ t \in Leaves(k, c) |-> TownExpected(attempts[k][c][t]) ])

\* C1: a mapping call returns one result per input, in input order, whatever
\* the order in which the pool's workers completed: the town pool's results
\* are flattened town by town, the player pool's list has the input's length
\* and element t is what worker t returned.
C1_MapKeepsInputOrder ==
    \A c \in Counties(country) :
        Returned(c) =>
            IF flow = "current"
            THEN county_future[c][2] =
                     Flatten([ t \in Leaves(country, c) |-> town_players[c][t] ])
            ELSE /\ Len(county_future[c][2]) = Len(Input[country][c][2])
                 /\ \A t \in Leaves(country, c) :
                        county_future[c][2][t] = player_details[c][t]

\* A county returned although its second worker completed before its first
\* and the two returned different, non-empty results.
C1_Witness ==
    \E c \in Counties(country) :
        /\ Returned(c)
        /\ finished[country][c] = << 2, 1 >>
        /\ IF flow = "current"
           THEN /\ town_players[c][1] # << >>
                /\ town_players[c][2] # << >>
                /\ town_players[c][1] # town_players[c][2]
           ELSE /\ player_details[c][1] # None
                /\ player_details[c][2] # None

\* C2: a town whose three passes all raised returns the empty list and no
\* exception leaves a worker; every county of every country fetched so far
\* holds exactly what its towns' own passes yield, in town order, so a
\* failed town changes nothing for its sibling towns and counties.
C2_ExhaustedTownIsEmpty ==
    flow = "current" =>
        /\ pc # "raised"
        /\ \A c \in Counties(country) : \A t \in Leaves(country, c) :
               LET log == attempts[country][c][t]
               IN  /\ future[c][t] # "raised"
                   /\ (LeafDone(c, t) /\ Len(log) = 3 /\ Fails(Last(log)))
                          => town_players[c][t] = << >>
        /\ \A c \in Counties(country) :
               CountyDone(c) =>
                   county_future[c] = << SheetRows[country][c][1], CountyExpected(country, c) >>
        /\ before = NoStep =>
               \A k \in 1..Len(all_country_leaderboards) : \A c \in Counties(k) :
                   /\ SheetRows[k][c][1] \in DOMAIN all_country_leaderboards[k]
                   /\ all_country_leaderboards[k][SheetRows[k][c][1]] = CountyExpected(k, c)

\* The first town of the first county failed three times, and the dict of
\* the country holds its sibling town's players and its sibling county's.
C2_Witness ==
    /\ flow = "current" /\ pc = "rank" /\ before = NoStep
    /\ Len(attempts[1][1][1]) = 3 /\ Fails(Last(attempts[1][1][1]))
    /\ Completed(attempts[1][1][2]) /\ Completed(attempts[1][2][1])
    /\ Len(all_country_leaderboards[1]["Tyne and Wear"]) = 1
    /\ Len(all_country_leaderboards[1]["Northumberland"]) = 2

\* C3: a town gets at least one and at most three passes: every pass but
\* the last raised, and the worker is done exactly when its last pass
\* completed or three passes have been made.
C3_OneToThreeAttempts ==
    flow = "current" =>
        \A c \in Counties(country) : \A t \in Leaves(country, c) :
            LET log == attempts[country][c][t]
            IN  /\ Len(log) <= 3
                /\ \A i \in 1..(Len(log) - 1) : Fails(log[i])
                /\ LeafDone(c, t) <=> (Completed(log) \/ Len(log) = 3)

\* One town was done after a pass that raised and a pass that completed,
\* another after three passes that raised.
C3_Witness ==
    /\ flow = "current"
    /\ \E c \in Counties(country) : \E t \in Leaves(country, c) :
           LET log == attempts[country][c][t]
           IN  LeafDone(c, t) /\ Len(log) = 2 /\ Fails(log[1]) /\ Completed(log)
    /\ \E c \in Counties(country) : \E t \in Leaves(country, c) :
           LET log == attempts[country][c][t]
           IN  LeafDone(c, t) /\ Len(log) = 3 /\ Fails(Last(log))

\* C4: between passes and at the return, town_players is empty unless the
\* last pass completed, and then it is exactly the conforming rows of the
\* page that pass was served: nothing of a pass that raised remains.
C4_FailedRowsDiscarded ==
    flow = "current" =>
        \A c \in Counties(country) : \A t \in Leaves(country, c) :
            town_players[c][t] = TownExpected(attempts[country][c][t])

\* A pass appended a row and then raised; the next pass completed and the
\* town returned that page's single player.
C4_Witness ==
    /\ flow = "current"
    /\ \E c \in Counties(country) : \E t \in Leaves(country, c) :
           LET log == attempts[country][c][t]
           IN  /\ LeafDone(c, t) /\ Len(log) = 2
               /\ log[1].resp = "pBx" /\ log[1].exc = "ValueError"
               /\ log[2].resp = "pB" /\ log[2].exc = "none"
               /\ Len(town_players[c][t]) = 1

\* The players of the peak flow's input.
PlayerInput(k, c, t) == all_players[k][c][2][t]

Labelled(resp) == { i \in 1..Len(Profile(resp).data) : Profile(resp).data[i].label }

LastLabelled(resp) == CHOOSE i \in Labelled(resp) : \A j \in Labelled(resp) : j <= i

\* A response from which a fetch and parse yields a peak: the page has the
\* script, the label occurs, and every labelled segment parses.
Parses(resp) ==
    /\ resp # "err"
    /\ Profile(resp).script
    /\ Labelled(resp) # {}
    /\ \A i \in Labelled(resp) : SegmentTry(Profile(resp).data[i]).exc = "none"

\* The days of a segment's rendered series that count: both series have the
\* day and its tier is above 0.
RankedDays(segment) ==
    { i \in 1..Len(segment.tiers) : i <= Len(segment.ratings) /\ segment.tiers[i] > 0 }

IsPeakOf(peak, segment) ==
    /\ \E i \in RankedDays(segment) : segment.ratings[i] = peak
    /\ \A i \in RankedDays(segment) : segment.ratings[i] <= peak

\* C5: the peak unit is retried like the town unit: when its first pass
\* raised and the site answers a later pass (of the three) with a profile
\* that parses, the unit returns the player's (name, link, peak) entry.
C5_PeakUnitRetries ==
    flow = "peak" =>
        \A c \in Counties(country) : \A t \in Leaves(country, c) :
            LET log == attempts[country][c][t]
                good == { i \in 2..Len(log) : Parses(log[i].resp) }
            IN  (LeafDone(c, t) /\ Fails(log[1]) /\ good # {}) =>
                    \E i \in good :
                        /\ \A j \in good : i <= j
                        /\ player_details[c][t] # None
                        /\ player_details[c][t][1] = PlayerInput(country, c, t)[1]
                        /\ player_details[c][t][2] = PlayerInput(country, c, t)[2]
                        /\ IsPeakOf(player_details[c][t][3],
                                    Profile(log[i].resp).data[LastLabelled(log[i].resp)])

\* C6: a peak unit whose passes all raised returns None, whatever a pass
\* had computed before it raised.
C6_ExhaustedPeakIsNone ==
    flow = "peak" =>
        \A c \in Counties(country) : \A t \in Leaves(country, c) :
            LET log == attempts[country][c][t]
            IN  (LeafDone(c, t) /\ \A i \in 1..Len(log) : Fails(log[i])) =>
                    player_details[c][t] = None

\* C10: a peak the unit holds is the largest rating among the days of one
\* labelled segment of the profile it parsed whose tier is above 0, the days
\* being those both series have; after a pass that completed it is that of
\* the last labelled segment.
C10_PeakOverRankedDays ==
    flow = "peak" =>
        \A c \in Counties(country) : \A t \in Leaves(country, c) :
            LET log == attempts[country][c][t]
            IN  player_details[c][t] # None =>
                    /\ \E i \in Labelled(log[1].resp) :
                           IsPeakOf(player_details[c][t][3], Profile(log[1].resp).data[i])
                    /\ ~Fails(log[1]) =>
                           IsPeakOf(player_details[c][t][3],
                                    Profile(log[1].resp).data[LastLabelled(log[1].resp)])

\* The profile with tiers [0,0,1,2,0] and ratings [1000,1000,1400,1600,1700]
\* was parsed in a pass that completed, and the peak held is 1600.
C10_Witness ==
    /\ flow = "peak"
    /\ \E c \in Counties(country) : \E t \in Leaves(country, c) :
           LET log == attempts[country][c][t]
           IN  /\ LeafDone(c, t) /\ Len(log) = 1
               /\ log[1].resp = "qA" /\ log[1].exc = "none"
               /\ Profile("qA").data[2].tiers = <<0, 0, 1, 2, 0>>
               /\ Profile("qA").data[2].ratings = <<1000, 1000, 1400, 1600, 1700>>
               /\ player_details[c][t][3] = 1600

(***************************************************************************)
(* Properties of the second loop.  before holds the dict of the country as  *)
(* it was when the last step began; Ranked_dict is that dict now.           *)
(***************************************************************************)
Ranked_dict == all_country_leaderboards[before.k]

Source == COMBINE_COUNTIES[before.entry][1]

Target == COMBINE_COUNTIES[before.entry][2]

\* C7: an entry applied to a dict holding both its source and its target
\* leaves the target with its own list followed by the source's, each in
\* its order, and removes the source key.
C7_MergeAppendsSource ==
    (before.op = "merge" /\ Source \in DOMAIN before.dict /\ Target \in DOMAIN before.dict) =>
        /\ Target \in DOMAIN Ranked_dict
        /\ Ranked_dict[Target] = before.dict[Target] \o before.dict[Source]
        /\ Source \notin DOMAIN Ranked_dict

\* "Tyne and Wear" and "Northumberland" with 2 players each became one
\* "Northumberland" with 4 players.
C7_Witness ==
    /\ before.op = "merge"
    /\ Source = "Tyne and Wear" /\ Target = "Northumberland"
    /\ Source \in DOMAIN before.dict /\ Target \in DOMAIN before.dict
    /\ Len(before.dict[Source]) = 2 /\ Len(before.dict[Target]) = 2
    /\ Len(Ranked_dict["Northumberland"]) = 4

\* C8: an entry applied to a dict holding its source but not its target
\* leaves the target with exactly the source's list and removes the source
\* key.
C8_RenameKeepsPlayers ==
    (before.op = "merge" /\ Source \in DOMAIN before.dict /\ Target \notin DOMAIN before.dict) =>
        /\ Target \in DOMAIN Ranked_dict
        /\ Ranked_dict[Target] = before.dict[Source]
        /\ Source \notin DOMAIN Ranked_dict

\* "Clwyd" with 3 players became "North Wales" with those 3 players.
C8_Witness ==
    /\ before.op = "merge"
    /\ Source = "Clwyd" /\ Target = "North Wales"
    /\ "North Wales" \notin DOMAIN before.dict
    /\ "Clwyd" \in DOMAIN before.dict /\ Len(before.dict["Clwyd"]) = 3
    /\ Len(Ranked_dict["North Wales"]) = 3

NonIncreasing(players) ==
    \A i \in 1..Len(players) : \A j \in (i + 1)..Len(players) :
        players[i][3] >= players[j][3]

\* The players of a list with rating r, in list order (None entries left out).
WithRating(players, r) ==
    LET Has(p) == p # None /\ p[3] = r
    IN  SelectSeq(players, Has)

RatingsOf(players) == { players[i][3] : i \in { j \in 1..Len(players) : players[j] # None } }

\* C9: every list of a country that has been ranked is in non-increasing
\* rating order, and the sort keeps the players of each rating in the order
\* they had before it and adds or drops no rating.
C9_SortStableDescending ==
    /\ \A k \in 1..Len(all_country_leaderboards) :
           (k < ranking) =>
               \A county \in DOMAIN all_country_leaderboards[k] :
                   /\ \A i \in 1..Len(all_country_leaderboards[k][county]) :
                          all_country_leaderboards[k][county][i] # None
                   /\ NonIncreasing(all_country_leaderboards[k][county])
    /\ before.op = "sort" =>
           /\ DOMAIN Ranked_dict = DOMAIN before.dict
           /\ \A county \in DOMAIN before.dict :
                  /\ RatingsOf(Ranked_dict[county]) = RatingsOf(before.dict[county])
                  /\ \A r \in RatingsOf(before.dict[county]) :
                         WithRating(Ranked_dict[county], r) = WithRating(before.dict[county], r)

\* A list made by merging two counties, with two players of equal rating
\* behind a lower one, was sorted into another order.
C9_Witness ==
    /\ pc = "done" /\ flow = "current" /\ before.op = "sort"
    /\ "Northumberland" \in DOMAIN before.dict
    /\ Len(before.dict["Northumberland"]) = 3
    /\ before.dict["Northumberland"][1][1][1] = "N"
    /\ before.dict["Northumberland"][2][1][1] = "T"
    /\ before.dict["Northumberland"][1][3] = 1500
    /\ before.dict["Northumberland"][2][3] = 1800
    /\ before.dict["Northumberland"][3][3] = 1800
    /\ Ranked_dict["Northumberland"] # before.dict["Northumberland"]

\* A pass that met no "Ranked Standard 3v3" label: nothing was served, or
\* what was served has no segment with the label.
NoLabel(resp) == resp = "err" \/ ~Profile(resp).script \/ Labelled(resp) = {}

Entries(players) == { players[i] : i \in { j \in 1..Len(players) : players[j] # None } }

\* C11: a player whose profile never shows the queue label yields no entry
\* and no error.  A pass served a profile without the label completes, and
\* a unit that never met the label returns None; the county's list handed
\* to the ranking has None at that player's place, and the ranking drops
\* exactly the None entries: every county key stays, no ranked list holds
\* None, and every other entry of the county is still there, once.
C11_LabelAbsentNoEntry ==
    flow = "peak" =>
        /\ pc # "raised"
        /\ \A c \in Counties(country) : \A t \in Leaves(country, c) :
               LET log == attempts[country][c][t]
               IN  /\ future[c][t] # "raised"
                   /\ \A i \in 1..Len(log) :
                          (i = 1 /\ log[i].resp # "err" /\ Profile(log[i].resp).script
                                /\ Labelled(log[i].resp) = {}) => ~Fails(log[i])
                   /\ (LeafDone(c, t) /\ \A i \in 1..Len(log) : NoLabel(log[i].resp))
                          => player_details[c][t] = None
        /\ \A k \in 1..Len(all_country_leaderboards) : \A c \in Counties(k) :
               /\ SheetRows[k][c][1] \in DOMAIN all_country_leaderboards[k]
               /\ k < ranking =>
                      \A i \in 1..Len(all_country_leaderboards[k][SheetRows[k][c][1]]) :
                          all_country_leaderboards[k][SheetRows[k][c][1]][i] # None
        /\ before.op = "sort" =>
               /\ DOMAIN Ranked_dict = DOMAIN before.dict
               /\ \A c \in Counties(before.k) :
                      LET county == SheetRows[before.k][c][1]
                      IN  /\ \A t \in Leaves(before.k, c) :
                                 (\A i \in 1..Len(attempts[before.k][c][t]) :
                                      NoLabel(attempts[before.k][c][t][i].resp))
                                     => before.dict[county][t] = None
                          /\ Entries(Ranked_dict[county]) = Entries(before.dict[county])
                          /\ Len(Ranked_dict[county]) =
                                 Cardinality(Entries(before.dict[county]))

\* The second player of "Tyne and Wear" and the only player of
\* "Northumberland" were served a profile without the label: the first
\* county keeps its other player, with the peak 1600, and the second county
\* is still a key, of an empty list.
C11_Witness ==
    /\ flow = "peak" /\ before.op = "sort" /\ before.k = 1
    /\ attempts[1][1][1] = << [resp |-> "qA", exc |-> "none"] >>
    /\ attempts[1][1][2] = << [resp |-> "qD", exc |-> "none"] >>
    /\ attempts[1][2][1] = << [resp |-> "qD", exc |-> "none"] >>
    /\ Len(before.dict["Tyne and Wear"]) = 2
    /\ before.dict["Tyne and Wear"][2] = None
    /\ Len(Ranked_dict["Tyne and Wear"]) = 1
    /\ Ranked_dict["Tyne and Wear"][1] = << PlayerOf("t1")[1], PlayerOf("t1")[2], 1600 >>
    /\ Ranked_dict["Northumberland"] = << >>

\* The rows of a served page after its first two.
LaterRows(resp) == SubSeq(Page(resp), 3, Len(Page(resp)))

\* A row whose structural offsets are absent.
OutOfRange(row) == RowException(row) = "IndexError"

\* C12: a pass served a page whose rows after the first two are player rows
\* or rows with absent offsets completes, so such a row causes no retry and
\* does not abort the page; and a town whose last pass completed returns the
\* conforming rows after the first two, in page order, as players: the
\* first two rows and the rows with absent offsets contribute nothing.
C12_OutOfRangeRowsSkipped ==
    flow = "current" =>
        \A c \in Counties(country) : \A t \in Leaves(country, c) :
            LET log == attempts[country][c][t]
            IN  /\ \A i \in 1..Len(log) :
                       (/\ log[i].resp # "err"
                        /\ \A r \in 1..Len(LaterRows(log[i].resp)) :
                               \/ Conforms(LaterRows(log[i].resp)[r])
                               \/ OutOfRange(LaterRows(log[i].resp)[r]))
                           => (~Fails(log[i]) /\ i = Len(log))
                /\ Completed(log) =>
                       LET rows == SelectSeq(LaterRows(Last(log).resp), Conforms)
                       IN  /\ Len(town_players[c][t]) = Len(rows)
                           /\ \A r \in 1..Len(rows) :
                                  town_players[c][t][r] = RowPlayer(rows[r])

\* A town was served, in its only pass, the page whose second row has the
\* shape of a player row, whose third row is too short and whose fifth row
\* lacks the rating line: it returned the fourth row's player alone.
C12_Witness ==
    /\ flow = "current"
    /\ \E c \in Counties(country) : \E t \in Leaves(country, c) :
           /\ LeafDone(c, t)
           /\ attempts[country][c][t] = << [resp |-> "pB", exc |-> "none"] >>
           /\ Conforms(Page("pB")[2])
           /\ OutOfRange(Page("pB")[3]) /\ OutOfRange(Page("pB")[5])
           /\ Len(town_players[c][t]) = 1
           /\ town_players[c][t][1] = RowPlayer(Page("pB")[4])

IsLetter(ch) == \E i \in 1..26 : Letters[i] = ch

LetterVal(ch) == CHOOSE i \in 1..26 : Letters[i] = ch

\* The index a label of letters stands for: A = 1 .. Z = 26, base 26 by place.
RECURSIVE Decode(_)
Decode(letters) ==
    IF letters = << >> THEN 0
    ELSE 26 * Decode(SubSeq(letters, 1, Len(letters) - 1)) + LetterVal(letters[Len(letters)])

\* The labels of all columns up to MaxCol.
ColumnLabels == [ col \in 1..MaxCol |-> ColumnLabel(col) ]

\* C13: the label rowcol_to_a1 returns is the column's letters followed by
\* the row in decimal; the letters are one or more of A..Z, stand for the
\* column index in bijective base 26, differ from the letters of every
\* other column, and are "A", "Z", "AA", "AZ", "AAA" for 1, 26, 27, 52, 703.
C13_BijectiveBase26 ==
    pc = "label" =>
        LET col == rowcol[2]
            letters == SelectSeq(label, IsLetter)
        IN  /\ label = letters \o DecimalText(rowcol[1])
            /\ Len(letters) >= 1
            /\ Decode(letters) = col
            /\ \A other \in 1..MaxCol : other # col => ColumnLabels[other] # letters
            /\ col = 1 => letters = <<"A">>
            /\ col = 26 => letters = <<"Z">>
            /\ col = 27 => letters = <<"A", "A">>
            /\ col = 52 => letters = <<"A", "Z">>
            /\ col = 703 => letters = <<"A", "A", "A">>

\* Row 2 of column 52, a multiple of 26, was labelled "AZ2".
C13_Witness ==
    /\ pc = "label"
    /\ rowcol = << 2, 52 >>
    /\ label = <<"A", "Z", "2">>

(***************************************************************************)
(* Properties of the writers.  A range string is read back: the sheet name  *)
(* before "!", then the two corner cells around ":".                        *)
(***************************************************************************)
Corners(range) == SplitOn(SplitOn(range, "!")[2], ":")

ColumnOf(a1) == Decode(SelectSeq(a1, IsLetter))

RowOf(a1) == DecimalOf(SelectSeq(a1, IsDigit))

FirstColumn(value_range) == ColumnOf(Corners(value_range.range)[1])

LastColumn(value_range) == ColumnOf(Corners(value_range.range)[2])

\* The payloads of the i-th sheet, in the order they were emitted.
SheetPayloads(i) ==
    LET OfSheet(value_range) == value_range.range[1] = SheetNames[i]
    IN  SelectSeq(all_value_ranges, OfSheet)

\* The county a payload is for: the middle cell of its header row.
CountyOf(value_range) == value_range.values[1][2]

\* C14: every payload belongs to the sheet of a country; a country's sheet
\* gets one payload per county of its mapping, in ascending lexicographic
\* order of the county names, and the k-th of them (k = 0, 1, ...) spans
\* columns 1+4k to 3+4k, so consecutive counties are one blank column apart
\* and no two ranges of a sheet share a column.
C14_CountyColumns ==
    pc = "written" =>
        /\ \A v \in 1..Len(all_value_ranges) :
               \E i \in 1..Len(all_country_leaderboards) :
                   all_value_ranges[v].range[1] = SheetNames[i]
        /\ \A i \in 1..Len(all_country_leaderboards) :
               LET emitted == SheetPayloads(i)
               IN  /\ Len(emitted) = Cardinality(DOMAIN all_country_leaderboards[i])
                   /\ { CountyOf(emitted[k]) : k \in 1..Len(emitted) } =
                          DOMAIN all_country_leaderboards[i]
                   /\ \A k \in 1..Len(emitted) :
                          /\ FirstColumn(emitted[k]) = 1 + 4 * (k - 1)
                          /\ LastColumn(emitted[k]) = 3 + 4 * (k - 1)
                          /\ \A l \in (k + 1)..Len(emitted) :
                                 /\ Less(Spelling(CountyOf(emitted[k])),
                                         Spelling(CountyOf(emitted[l])))
                                 /\ LastColumn(emitted[k]) < FirstColumn(emitted[l])
                          /\ k < Len(emitted) =>
                                 FirstColumn(emitted[k + 1]) = LastColumn(emitted[k]) + 2

\* "North Wales" and "Northumberland", which differ first in a space and a
\* letter, were written in that order to columns A..C and E..G of the first
\* sheet.
C14_Witness ==
    /\ pc = "written" /\ flow = "current"
    /\ DOMAIN all_country_leaderboards[1] = {"Northumberland", "North Wales"}
    /\ Len(all_value_ranges) = 2
    /\ CountyOf(all_value_ranges[1]) = "North Wales"
    /\ SubSeq(all_value_ranges[1].range, 1, 4) = <<"England", "!", "A", "1">>
    /\ Corners(all_value_ranges[1].range)[2][1] = "C"
    /\ CountyOf(all_value_ranges[2]) = "Northumberland"
    /\ SubSeq(all_value_ranges[2].range, 1, 4) = <<"England", "!", "E", "1">>
    /\ Corners(all_value_ranges[2].range)[2][1] = "G"

\* The rating label of the flow's writer.
RatingLabel == IF flow = "current" THEN "3's MMR" ELSE "3's Peak MMR"

\* C15: the payload of a county with N players has N+1 rows of 3 cells: the
\* header ("Rank", county, rating label), then for i = 1..N the row of the
\* i-th player of the ranked list: i, the hyperlink formula of its link
\* and name, its rating; its range runs from row 1 to row N+1.
C15_BlockRows ==
    pc = "written" =>
        \A i \in 1..Len(all_country_leaderboards) :
            \A k \in 1..Len(SheetPayloads(i)) :
                LET value_range == SheetPayloads(i)[k]
                    players == all_country_leaderboards[i][CountyOf(value_range)]
                    N == Len(players)
                IN  /\ Len(value_range.values) = N + 1
                    /\ \A r \in 1..(N + 1) : Len(value_range.values[r]) = 3
                    /\ value_range.values[1][1] = "Rank"
                    /\ value_range.values[1][3] = RatingLabel
                    /\ \A r \in 1..N :
                           /\ value_range.values[r + 1][1] = r
                           /\ value_range.values[r + 1][2] =
                                  Hyperlink(UrlText(players[r][2]), players[r][1])
                           /\ value_range.values[r + 1][3] = players[r][3]
                    /\ RowOf(Corners(value_range.range)[1]) = 1
                    /\ RowOf(Corners(value_range.range)[2]) = N + 1
                    /\ RowOf(Corners(value_range.range)[2]) = Len(value_range.values)

\* A sheet was written for a county without players, whose block is the
\* header alone in rows 1..1, and a county with three players, ranked 1, 2,
\* 3 in rows 2..4 of a block of rows 1..4.
C15_Witness ==
    /\ pc = "written"
    /\ Len(all_value_ranges) = 2
    /\ Len(all_country_leaderboards[1][CountyOf(all_value_ranges[1])]) = 0
    /\ Len(all_value_ranges[1].values) = 1
    /\ Corners(all_value_ranges[1].range) = << <<"A", "1">>, <<"C", "1">> >>
    /\ Len(all_country_leaderboards[1][CountyOf(all_value_ranges[2])]) = 3
    /\ Len(all_value_ranges[2].values) = 4
    /\ all_value_ranges[2].values[4][1] = 3
    /\ Corners(all_value_ranges[2].range) = << <<"E", "1">>, <<"G", "4">> >>

Quoted(text) == \E i \in 1..Len(text) : text[i] = "\""

\* C16: a name get_town_players produced holds no double quote; and when
\* the url and the name the writer put into the hyperlink formula hold no
\* double quote, splitting the formula on the double quote gives the url as
\* element 1 and the name as element 3 (counting from 0).
C16_HyperlinkRoundTrip ==
    /\ \A i \in 1..Len(town_players) : ~Quoted(town_players[i][1])
    /\ pc = "read" =>
           LET url == UrlText(town_players[1][2])
               name == town_players[1][1]
           IN  (~Quoted(url) /\ ~Quoted(name)) =>
                   /\ Len(pieces) >= 4
                   /\ pieces[2] = url
                   /\ pieces[4] = name

\* The anchor text A" was parsed into the name A', written and read back:
\* element 1 is the link and element 3 the name.
C16_Witness ==
    /\ pc = "read"
    /\ anchor = [name |-> <<"A", "\"">>, href |-> <<"/", "a">>]
    /\ town_players[1][1] = <<"A", "'">>
    /\ pieces[2] = << ORIGIN, "/", "a" >>
    /\ pieces[4] = <<"A", "'">>

(***************************************************************************)
(* Properties of the pools.                                                 *)
(***************************************************************************)
\* The county workers that hold a thread of the country's pool.
ActiveCounties == { c \in Counties(country) : CountyStarted(c) /\ ~CountyDone(c) }

\* The leaf workers of county c that hold a thread of its pool.
ActiveLeaves(c) == { t \in Leaves(country, c) : LeafStarted(c, t) /\ ~LeafDone(c, t) }

\* All leaf fetches outstanding.
Outstanding == UNION { { << c, t >> : t \in ActiveLeaves(c) } : c \in ActiveCounties }

\* A leaf worker's passes, once it has returned: the last one completed or
\* there are TRY_COUNT of them.
FinishedLog(log) == log # << >> /\ (~Fails(Last(log)) \/ Len(log) = TRY_COUNT)

C18_NoWorkOutlivesMap ==
    /\ \A c \in Counties(country) :
           CountyDone(c) => \A t \in Leaves(country, c) : future[c][t] # "pending"
    /\ \A k \in 1..Len(all_country_leaderboards) :
           \A c \in Counties(k) : \A t \in Leaves(k, c) : FinishedLog(attempts[k][c][t])
    /\ Len(all_country_leaderboards) >= country =>
           \A c \in Counties(country) : county_future[c] # None
    /\ (pc \in {"rank", "done"} \/ before.op # "none") =>
           /\ Len(all_country_leaderboards) = NumCountries
           /\ \A c \in Counties(country) :
                  /\ county_future[c] # None
                  /\ \A t \in Leaves(country, c) : future[c][t] # "pending"

\* An entry of the rename table is being applied; the first country has been
\* merged already; a town of it needed all three passes, and every fetch of
\* both countries is over.
C18_Witness ==
    /\ flow = "current" /\ pc = "rank" /\ before.op = "merge" /\ ranking = 2
    /\ Len(attempts[1][1][1]) = 3
    /\ \A k \in 1..NumCountries : \A c \in Counties(k) : \A t \in Leaves(k, c) :
           FinishedLog(attempts[k][c][t])

(***************************************************************************)
(* Properties of the Spreadsheet operations, read from trace.               *)
(***************************************************************************)
\* C19: no operation lets an exception out: whenever its wrapper met an
\* exception the operation returned None, and on a service that is not a
\* Sheets object it asked nothing of the service.
C19_OperationsNeverRaise ==
    /\ pc # "raised"
    /\ \A i \in 1..Len(trace) :
           /\ trace[i].raised = "none"
           /\ trace[i].exc # "none" => trace[i].result = None
           /\ sheet_service.class # "Sheets" =>
                  /\ trace[i].exc = "AssertionError"
                  /\ trace[i].result = None
                  /\ trace[i].lookups = << >>

\* On a Spreadsheet whose service is None, autosize_all_columns and then
\* update_ranges_values were called: both returned None after the failed
\* assertion and nothing was asked of the service.
C19_Witness ==
    /\ pc = "sheet"
    /\ sheet_service.class = "NoneType"
    /\ Len(trace) = 2
    /\ trace[1].op = "autosize_all_columns" /\ trace[2].op = "update_ranges_values"
    /\ \A i \in 1..2 :
           /\ trace[i].exc = "AssertionError" /\ trace[i].raised = "none"
           /\ trace[i].result = None /\ trace[i].lookups = << >>

\* The API request behind each of the three value operations.
Behind ==
    [ get_ranges_values |-> "values.batchGet",
      clear_ranges_values |-> "values.batchClear",
      update_ranges_values |-> "values.batchUpdate" ]

\* C20: on a built Sheets object whose API answers, get_ranges_values,
\* clear_ranges_values and update_ranges_values return the answer of the
\* batchGet, batchClear and batchUpdate request, and not None, with the
\* keyword arguments of either main included.
C20_ReturnsServiceResult ==
    \A i \in 1..Len(trace) :
        (/\ sheet_service = SheetsObject(TRUE)
         /\ trace[i].op \in DOMAIN Behind
         /\ trace[i].api[1] = "ok")
            => /\ trace[i].result # None
               /\ trace[i].result = << Behind[trace[i].op] >>

(***************************************************************************)
(* Properties of the whole of get_country_leaderboards, current-rating      *)
(* flow: what it returns, told from the responses the towns were given      *)
(* (attempts) and the rows of the sheet alone.                              *)
(***************************************************************************)
IsSource(name) == \E i \in 1..Len(COMBINE_COUNTIES) : COMBINE_COUNTIES[i][1] = name

IsTarget(name) == \E i \in 1..Len(COMBINE_COUNTIES) : COMBINE_COUNTIES[i][2] = name

\* The county names of country k's rows.
Fetched(k) == { SheetRows[k][c][1] : c \in Counties(k) }

\* The row of country k that gives the dict its value for name: the last one.
CountyIndex(k, name) ==
    CHOOSE c \in Counties(k) :
        /\ SheetRows[k][c][1] = name
        /\ \A d \in Counties(k) : d > c => SheetRows[k][d][1] # name

\* The sources among keys that the table renames to name, in table order.
SourcesAmong(keys, name) ==
    LET Renamed(pair) == pair[2] = name /\ pair[1] \in keys
        pairs == SelectSeq(COMBINE_COUNTIES, Renamed)
    IN  [ i \in 1..Len(pairs) |-> pairs[i][1] ]

SourcesOf(k, name) == SourcesAmong(Fetched(k), name)

\* The keys of country k's mapping once the table has been applied.
FinalKeys(k) ==
    { name \in Fetched(k) : ~IsSource(name) }
        \cup { COMBINE_COUNTIES[i][2] :
                   i \in { j \in 1..Len(COMBINE_COUNTIES) : COMBINE_COUNTIES[j][1] \in Fetched(k) } }

\* The list under a final key before it is sorted: the county's own towns in
\* town order, each in page order, then those of its sources in table order.
PreSort(k, name) ==
    (IF name \in Fetched(k) THEN CountyExpected(k, CountyIndex(k, name)) ELSE << >>)
        \o Flatten([ i \in 1..Len(SourcesOf(k, name)) |->
                       CountyExpected(k, CountyIndex(k, SourcesOf(k, name)[i])) ])

\* C21: the mapping get_country_leaderboards returns is decided by the
\* responses alone, whatever the order in which the workers completed: its
\* keys are the final keys of the rows, and each list is its pre-sort list
\* (towns in input order, rows in page order) in non-increasing rating
\* order, the players of equal rating in their pre-sort order.
C21_ScheduleIndependent ==
    (flow = "current" /\ pc = "done") =>
        \A k \in 1..NumCountries :
            /\ DOMAIN all_country_leaderboards[k] = FinalKeys(k)
            /\ \A name \in FinalKeys(k) :
                   LET final == all_country_leaderboards[k][name]
                   IN  /\ Len(final) = Len(PreSort(k, name))
                       /\ NonIncreasing(final)
                       /\ \A r \in RatingsOf(PreSort(k, name)) :
                              WithRating(final, r) = WithRating(PreSort(k, name), r)

\* The second town of "Tyne and Wear" completed before the first; the final
\* "Northumberland" list still has the three players rated 1800 in input
\* order: E of its own town, then A of the first and C of the second town of
\* "Tyne and Wear".
C21_Witness ==
    /\ flow = "current" /\ pc = "done"
    /\ finished[1][1] = << 2, 1 >>
    /\ Last(attempts[1][1][1]) = [resp |-> "pA", exc |-> "none"]
    /\ Last(attempts[1][1][2]) = [resp |-> "pB", exc |-> "none"]
    /\ Last(attempts[1][2][1]) = [resp |-> "pD", exc |-> "none"]
    /\ [ i \in 1..5 |-> all_country_leaderboards[1]["Northumberland"][i][1] ] =
           << <<"E">>, <<"A">>, <<"C">>, <<"B", "'">>, <<"D">> >>
    /\ [ i \in 1..3 |-> all_country_leaderboards[1]["Northumberland"][i][3] ] =
           << 1800, 1800, 1800 >>

\* How often p occurs in a list.
Count(players, p) == Cardinality({ i \in 1..Len(players) : players[i] = p })

\* The lists of a mapping, one after another.
RECURSIVE Values(_, _)
Values(dict, keys) ==
    IF keys = {} THEN << >>
    ELSE LET key == CHOOSE name \in keys : TRUE
         IN  dict[key] \o Values(dict, keys \ {key})

\* The conforming rows of the pages country k's towns were served in passes
\* that completed.
FetchedPlayers(k) == Flatten([ c \in Counties(k) |-> CountyExpected(k, c) ])

DistinctCounties(k) ==
    \A c \in Counties(k) : \A d \in Counties(k) :
        c # d => SheetRows[k][c][1] # SheetRows[k][d][1]

\* C22: for a country whose rows have pairwise distinct county names, the
\* players of its mapping, from the moment it is appended and through every
\* merge and the sort, are the conforming rows of its fetched pages: each
\* player occurs in the mapping as often as among those rows.
C22_PlayersConserved ==
    flow = "current" =>
        \A k \in 1..Len(all_country_leaderboards) :
            DistinctCounties(k) =>
                LET held == Values(all_country_leaderboards[k],
                                   DOMAIN all_country_leaderboards[k])
                    fetched == FetchedPlayers(k)
                IN  /\ Len(held) = Len(fetched)
                    /\ \A p \in { held[i] : i \in 1..Len(held) }
                                 \cup { fetched[i] : i \in 1..Len(fetched) } :
                           Count(held, p) = Count(fetched, p)

\* Player A was on a page of "Tyne and Wear" and, with the same link and
\* rating, on the page of "Northumberland": the final "Northumberland" list
\* of five players holds that entry twice.
C22_Witness ==
    /\ flow = "current" /\ pc = "done"
    /\ Last(attempts[1][1][1]).resp = "pA" /\ Completed(attempts[1][1][1])
    /\ Last(attempts[1][2][1]).resp = "pDa" /\ Completed(attempts[1][2][1])
    /\ DOMAIN all_country_leaderboards[1] = {"Northumberland"}
    /\ Len(all_country_leaderboards[1]["Northumberland"]) = 5
    /\ Count(all_country_leaderboards[1]["Northumberland"],
             << <<"A">>, <<ORIGIN, <<"/a">> >>, 1800 >>) = 2

(***************************************************************************)
(* Properties of the merge stage as a whole, told from the mapping as it    *)
(* was appended (appended) and the mapping now.                             *)
(***************************************************************************)
\* The merge stage of country k is over: every table entry has been tried.
Merged(k) ==
    \/ k < ranking
    \/ pc \in {"done", "written"}
    \/ k = ranking /\ entry > Len(COMBINE_COUNTIES)

\* The loop over the table has ended for country k and its sort has not begun.
JustMerged(k) == pc = "rank" /\ k = ranking /\ entry > Len(COMBINE_COUNTIES)

\* The targets of the sources among keys.
TargetsOf(keys) ==
    { COMBINE_COUNTIES[i][2] :
          i \in { j \in 1..Len(COMBINE_COUNTIES) : COMBINE_COUNTIES[j][1] \in keys } }

\* C23: once the merge stage of a country is over, no source of the table
\* is a key of its mapping, whichever sources and targets it held when it
\* was appended: the keys are the appended keys without the sources, plus
\* the targets of those sources; and a target's list is its own appended
\* list, if it had one, followed by the lists of its sources in table order.
C23_NoSourceAfterMerge ==
    flow = "current" =>
        \A k \in 1..Len(all_country_leaderboards) :
            /\ Merged(k) =>
                   /\ \A name \in DOMAIN all_country_leaderboards[k] : ~IsSource(name)
                   /\ DOMAIN all_country_leaderboards[k] =
                          { name \in DOMAIN appended[k] : ~IsSource(name) }
                              \cup TargetsOf(DOMAIN appended[k])
            /\ JustMerged(k) =>
                   \A name \in TargetsOf(DOMAIN appended[k]) :
                       all_country_leaderboards[k][name] =
                           (IF name \in DOMAIN appended[k] THEN appended[k][name] ELSE << >>)
                               \o Flatten([ i \in 1..Len(SourcesAmong(DOMAIN appended[k], name)) |->
                                              appended[k][SourcesAmong(DOMAIN appended[k], name)[i]] ])

\* A mapping of "Gwynedd", "Clwyd", "North Wales" and "Kent" has been
\* merged: the keys are "North Wales" and "Kent", and "North Wales" holds
\* its own players, then those of "Clwyd", then those of "Gwynedd".
C23_Witness ==
    /\ flow = "current" /\ JustMerged(1)
    /\ DOMAIN appended[1] = {"Gwynedd", "Clwyd", "North Wales", "Kent"}
    /\ DOMAIN all_country_leaderboards[1] = {"North Wales", "Kent"}
    /\ [ i \in 1..6 |-> all_country_leaderboards[1]["North Wales"][i][1] ] =
           << <<"North Wales", "1">>, <<"North Wales", "2">>,
              <<"Clwyd", "1">>, <<"Clwyd", "2">>,
              <<"Gwynedd", "1">>, <<"Gwynedd", "2">> >>

(***************************************************************************)
(* Termination.                                                             *)
(***************************************************************************)
\* get_country_leaderboards has returned.
HasReturned ==
    /\ pc = "done"
    /\ Len(all_country_leaderboards) = NumCountries
    /\ \A k \in 1..NumCountries : \A c \in Counties(k) : \A t \in Leaves(k, c) :
           /\ FinishedLog(attempts[k][c][t])
           /\ Len(attempts[k][c][t]) <= TRY_COUNT

\* C24: when every attempt returns or raises in the end and the workers are
\* scheduled fairly, get_country_leaderboards returns in the end, every
\* leaf unit having finished after at most three passes; no pool waits for
\* ever.
C24_EventuallyReturns == <>HasReturned

\* A run has returned in which the first town failed in all three passes
\* and its sibling town completed in its second, the second town of the
\* county having completed before the first.
C24_Witness ==
    /\ HasReturned
    /\ sheet = "narrow" /\ flow = "current"
    /\ Len(attempts[1][1][1]) = TRY_COUNT /\ Fails(Last(attempts[1][1][1]))
    /\ Len(attempts[1][2][1]) = 2 /\ Completed(attempts[1][2][1])
    /\ finished[1][1] = << 2, 1 >>

\* A name the table does not mention.
Unnamed(name) == ~IsSource(name) /\ ~IsTarget(name)

\* C25: the merge leaves alone what the table does not name.  While and
\* after the table is applied to a country, and before its sort, every
\* appended county that is neither a source nor a target is still a key
\* with the list it was appended with, and a country appended without any
\* source has its whole mapping as appended; each single entry leaves every
\* key but its source and target as it was; and such a county remains a key
\* after the sort.
C25_MergeFrame ==
    flow = "current" =>
        /\ \A k \in 1..Len(all_country_leaderboards) :
               /\ (pc = "rank" /\ k >= ranking) =>
                      /\ \A name \in DOMAIN appended[k] :
                             Unnamed(name) =>
                                 /\ name \in DOMAIN all_country_leaderboards[k]
                                 /\ all_country_leaderboards[k][name] = appended[k][name]
                      /\ (\A name \in DOMAIN appended[k] : ~IsSource(name)) =>
                             all_country_leaderboards[k] = appended[k]
               /\ \A name \in DOMAIN appended[k] :
                      Unnamed(name) => name \in DOMAIN all_country_leaderboards[k]
        /\ before.op = "merge" =>
               \A name \in DOMAIN before.dict :
                   name \notin {Source, Target} =>
                       /\ name \in DOMAIN Ranked_dict
                       /\ Ranked_dict[name] = before.dict[name]

\* "Tyne and Wear" has been merged into "Northumberland" in a mapping that
\* also held "Kent" with two players, the lower rated first: "Kent" still
\* has its list as appended, in that order.
C25_Witness ==
    /\ flow = "current" /\ JustMerged(1) /\ before.op = "merge"
    /\ DOMAIN appended[1] = {"Tyne and Wear", "Kent"}
    /\ DOMAIN all_country_leaderboards[1] = {"Northumberland", "Kent"}
    /\ Len(appended[1]["Kent"]) = 2
    /\ appended[1]["Kent"][1][3] < appended[1]["Kent"][2][3]
    /\ all_country_leaderboards[1]["Kent"] = appended[1]["Kent"]

(***************************************************************************)
(* Properties of the writers' operations on the destination, read from      *)
(* trace.                                                                   *)
(***************************************************************************)
\* The operations made so far, in order.
Operations == [ i \in 1..Len(trace) |-> trace[i].op ]

\* The operation met an exception, which its wrapper caught.
Failed(call) == call.exc # "none"

\* C26: a writer that has run has made exactly the three operations clear,
\* update, autosize, in that order and once each, whether or not the clear
\* or the update failed, no exception having left any of them; and whenever
\* an operation has been made the payloads are complete, one per county of
\* every country.
C26_ClearUpdateAutosize ==
    /\ pc # "raised"
    /\ pc = "done" => trace = << >>
    /\ pc = "written" =>
           Operations = << "clear_ranges_values", "update_ranges_values",
                           "autosize_all_columns" >>
    /\ \A i \in 1..Len(trace) : trace[i].raised = "none"
    /\ trace # << >> =>
           /\ pc = "written"
           /\ \A i \in 1..Len(all_country_leaderboards) :
                  Len(SheetPayloads(i)) = Cardinality(DOMAIN all_country_leaderboards[i])

\* The peak writer has run on a Spreadsheet whose service is None, with two
\* counties to write: the clear and the update failed on the assertion, and
\* the update and the autosize were made all the same, after both payloads
\* were built.
C26_Witness ==
    /\ pc = "written" /\ flow = "peak"
    /\ sheet_service.class = "NoneType"
    /\ Len(all_value_ranges) = 2
    /\ Len(trace) = 3
    /\ Failed(trace[1]) /\ trace[1].exc = "AssertionError"
    /\ Failed(trace[2])
    /\ trace[2].op = "update_ranges_values"
    /\ trace[3].op = "autosize_all_columns"

(***************************************************************************)
(* Properties of a player without a ranked day.                             *)
(***************************************************************************)
\* A served profile that has the label and no day ranked above 0 in any
\* labelled segment.
Unranked(resp) ==
    /\ resp # "err"
    /\ Profile(resp).script
    /\ Labelled(resp) # {}
    /\ \A i \in Labelled(resp) : RankedDays(Profile(resp).data[i]) = {}

\* C27: a player whose profile has the label but no ranked day yields no
\* entry and no error.  No exception leaves a worker; a unit whose first
\* pass was served such a profile holds None from then on and returns it;
\* the county's list has None at that place and, at the place of a sibling
\* whose profile parsed, the sibling's entry with its peak; and the ranking
\* drops exactly the None entries and keeps every other entry once.
C27_UnrankedPlayerIsNone ==
    flow = "peak" =>
        /\ pc # "raised"
        /\ \A c \in Counties(country) : \A t \in Leaves(country, c) :
               LET log == attempts[country][c][t]
               IN  /\ future[c][t] # "raised"
                   /\ (log # << >> /\ Unranked(log[1].resp)) => player_details[c][t] = None
                   /\ (Returned(c) /\ Unranked(log[1].resp)) => county_future[c][2][t] = None
                   /\ (Returned(c) /\ Parses(log[1].resp)) =>
                          /\ county_future[c][2][t] # None
                          /\ county_future[c][2][t][1] = PlayerInput(country, c, t)[1]
                          /\ county_future[c][2][t][2] = PlayerInput(country, c, t)[2]
                          /\ IsPeakOf(county_future[c][2][t][3],
                                      Profile(log[1].resp).data[LastLabelled(log[1].resp)])
        /\ before.op = "sort" =>
               /\ DOMAIN Ranked_dict = DOMAIN before.dict
               /\ \A c \in Counties(before.k) :
                      LET county == SheetRows[before.k][c][1]
                      IN  /\ \A t \in Leaves(before.k, c) :
                                 Unranked(attempts[before.k][c][t][1].resp)
                                     => before.dict[county][t] = None
                          /\ Entries(Ranked_dict[county]) = Entries(before.dict[county])
                          /\ Len(Ranked_dict[county]) =
                                 Cardinality(Entries(before.dict[county]))
                          /\ \A i \in 1..Len(Ranked_dict[county]) :
                                 Ranked_dict[county][i] # None

\* The second player of "Fife" was served the profile whose two days both
\* have tier 0: the pass raised ValueError, the unit made its three passes
\* and returned None; the ranked "Fife" holds the first player alone, with
\* the peak 1600.
C27_Witness ==
    /\ flow = "peak" /\ sheet = "wide" /\ before.op = "sort" /\ before.k = 2
    /\ Profile("qE").data[1].tiers = <<0, 0>>
    /\ Len(attempts[2][1][2]) = TRY_COUNT
    /\ attempts[2][1][2][1] = [resp |-> "qE", exc |-> "ValueError"]
    /\ before.dict["Fife"][2] = None
    /\ Ranked_dict["Fife"] = << << PlayerOf("t6")[1], PlayerOf("t6")[2], 1600 >> >>

====
